---------------------------- MODULE Spec2Model ----------------------------
(***************************************************************************)
(* Hybrid retrieval fusion engine of agenticRAG.                           *)
(*                                                                         *)
(* Two retrievers are modelled:                                            *)
(*   - retrieval/hybrid_retriever.py  HybridRetriever (graph+FAISS+BM25)   *)
(*   - aimw/app/services/retrieve.py  HybridRetriever (FAISS+BM25)         *)
(*                                                                         *)
(* Floats are modelled as exact rationals.  alpha and graph_ratio are      *)
(* numerators over RatioDen; a score is a pair <<num, den>> with den > 0.  *)
(* Python indices are kept 0-based: document idx is faiss_metadata[idx+1]. *)
(*                                                                         *)
(* A query is a record: its text, and what the collaborators answer on it  *)
(*   dist        distance of each document to the query embedding          *)
(*   raw         BM25 relevance of each document for the query tokens      *)
(*   bm25_raises whether bm25.get_scores raises                            *)
(*   hits        graph nodes matching the text, best first: [id, score]    *)
(*   graph_fail  "none", or where the graph backend raises:                *)
(*               "session" (driver.session()) or "run" (session.run())     *)
(***************************************************************************)
EXTENDS Integers, Sequences, FiniteSets, TLC

(***************************************************************************)
(* Bounds of the model.                                                    *)
(***************************************************************************)
RatioDen == 10      \* alpha, graph_ratio range over multiples of 1/RatioDen
MaxAllocK == 12     \* largest k given to the budget allocators
NumDocs == 3        \* documents in the loaded corpus
MaxK == 3           \* largest k given to search
ShortfallDocs == 12     \* documents in the corpus of the shortfall scenario
ShortfallMatches == 3   \* documents with a positive BM25 score in it
ShortfallK == 10        \* k of the shortfall scenario
FetchDocs == 5          \* documents in the corpora of the re-fetch scenario
SmallFetchK == 3        \* largest of the small fetch_k arguments
MaxCloses == 2          \* calls of close() / __exit__ on one retriever

(***************************************************************************)
(* Program constants.                                                      *)
(***************************************************************************)
OverFetch == 5      \* faiss_search asks the index for k * 5 candidates
FetchK == 100       \* optimized_faiss_search: default fetch_k
MaxAttempts == 3    \* optimized_faiss_search: max_attempts

VARIABLES
    retriever,        \* which HybridRetriever was built: "retrieval" or "aimw"
    faiss_metadata,   \* self.faiss_metadata / self.id_map : idx -> metadata
    bm25_metadata,    \* self.bm25_metadata
    neo4j_driver,     \* self.neo4j_driver: "None", or the driver: "open" or "closed"
    call,             \* arguments of the search / allocation being served
    pc,               \* "ready" before the call is served, "done" after,
                      \* "blocked" while it waits for a backend
    budget,           \* the allocation computed for the call
    graph_results,    \* search's local graph_results
    faiss_results,    \* search's local faiss_results
    bm25_results,     \* search's local bm25_results
    queried,          \* backend operations issued while serving the call
    outcome,          \* "none", "returned", "ValueError" or "GraphError"
    result,           \* the list returned to the caller
    fetch_attempt,    \* optimized_faiss_search's local attempt
    fetch_windows,    \* the windows (current_fetch_k) of the lookups issued
    closes,           \* the calls of close() / __exit__ so far, in order
    released,         \* how many times neo4j_driver.close() has been called
    pending_checks,   \* AgentState["pending_checks"] of the compliance workflow
    current_check,    \* AgentState["current_check"]
    check_results,    \* AgentState["check_results"]
    answer,           \* AgentState["answer"], a string as a sequence of parts
    executed          \* the checks agent_executor has run on, in order

\* the fields of the retriever
fields == <<retriever, faiss_metadata, bm25_metadata, neo4j_driver>>

\* the call being served and what it produced
served == <<call, budget, graph_results, faiss_results, bm25_results, queried,
            outcome, result>>

\* the keys of AgentState the workflow writes
agent_state == <<pending_checks, current_check, check_results, answer>>

workflow == <<agent_state, executed>>

vars == <<fields, served, pc, fetch_attempt, fetch_windows, closes, released,
          workflow>>

(***************************************************************************)
(* Python values.                                                          *)
(***************************************************************************)
None == "None"

Max(a, b) == IF a >= b THEN a ELSE b

Min(a, b) == IF a <= b THEN a ELSE b

\* int(n / d) for d > 0: truncation toward zero
IntTrunc(n, d) == IF n >= 0 THEN n \div d ELSE -((-n) \div d)

\* round(n / d) for d > 0: Python 3 rounds halves to the even neighbour
PyRound(n, d) ==
    LET q == n \div d
        r == n - q * d
    IN  IF 2 * r < d THEN q
        ELSE IF 2 * r > d THEN q + 1
        ELSE IF q % 2 = 0 THEN q ELSE q + 1

\* s[:n] of Python, n of either sign
SliceTo(s, n) ==
    LET m == IF n >= 0 THEN Min(n, Len(s)) ELSE Max(0, Len(s) + n)
    IN  SubSeq(s, 1, m)

\* scores are rationals <<num, den>>, den > 0
ScoreGT(a, b) == a[1] * b[2] > b[1] * a[2]

ScoreGE(a, b) == a[1] * b[2] >= b[1] * a[2]

ScoreEQ(a, b) == a[1] * b[2] = b[1] * a[2]

\* num / den as a score, for any den # 0
Ratio(num, den) == IF den > 0 THEN <<num, den>> ELSE <<-num, -den>>

(***************************************************************************)
(* Budget allocation.                                                      *)
(***************************************************************************)
\* variant that takes the lexical share from k instead of from remaining
allocate_budget_from_k(k, alpha, graph_ratio, include_graph) ==
    LET k_graph   == IF include_graph THEN IntTrunc(k * graph_ratio, RatioDen) ELSE 0
        remaining == Max(0, k - k_graph)
        k_faiss   == IF alpha > 0 THEN PyRound(alpha * remaining, RatioDen) ELSE 0
        k_bm25    == k - k_faiss
    IN  <<k_graph, k_faiss, k_bm25>>

\* HybridRetriever._allocate_budget: (k_graph, k_faiss, k_bm25)
_allocate_budget(k, alpha, graph_ratio, include_graph) ==
    LET k_graph   == IF include_graph THEN IntTrunc(k * graph_ratio, RatioDen) ELSE 0
        remaining == Max(0, k - k_graph)
        k_faiss   == IF alpha > 0 THEN PyRound(alpha * remaining, RatioDen) ELSE 0
        k_bm25    == remaining - k_faiss
    IN  <<k_graph, k_faiss, k_bm25>>


(***************************************************************************)
(* Results.  A result is a dict; `fields` is the set of keys it has.       *)
(* chunk is the idx of the text, metadata and entity are dicts.            *)
(***************************************************************************)
NoMeta == [id |-> None, category |-> None]

NoEntity == [id |-> None]

ChunkResult(idx, meta, score, method) ==
    [fields |-> {"chunk", "metadata", "score", "retrieval_method"},
     chunk |-> idx, metadata |-> meta, entity |-> NoEntity,
     score |-> score, retrieval_method |-> method]

GraphResult(ent_id, score) ==
    [fields |-> {"entity", "connections", "score", "retrieval_method"},
     chunk |-> -1, metadata |-> NoMeta, entity |-> [id |-> ent_id],
     score |-> score, retrieval_method |-> "graph"]

\* dict.get(key) on a metadata dict
MetaGet(meta, key) == IF key \in DOMAIN meta THEN meta[key] ELSE None

InSeq(x, s) == \E i \in 1..Len(s) : s[i] = x

\* list.sort(key=score, reverse=True): stable, equal scores keep their order
SortByScoreDesc(s) ==
    LET order == SortSeq([i \in 1..Len(s) |-> i],
                         LAMBDA i, j : \/ ScoreGT(s[i].score, s[j].score)
                                       \/ /\ ScoreEQ(s[i].score, s[j].score)
                                          /\ i < j)
    IN  [p \in 1..Len(s) |-> s[order[p]]]

(***************************************************************************)
(* Result merging.                                                         *)
(***************************************************************************)
\* a key that falls back on the text of a chunk without an id
MergeKeyOrChunk(item, primary_key) ==
    IF primary_key \in item.fields /\ primary_key = "metadata"
       /\ MetaGet(item.metadata, "id") # None
    THEN MetaGet(item.metadata, "id")
    ELSE IF primary_key \in item.fields /\ primary_key = "entity"
            /\ MetaGet(item.entity, "id") # None
    THEN MetaGet(item.entity, "id")
    ELSE "chunk" \o ToString(item.chunk)

\* the identity key of an item: item.get(primary_key), then its "id"
MergeKey(item, primary_key) ==
    IF primary_key \notin item.fields THEN None
    ELSE IF primary_key = "metadata" THEN MetaGet(item.metadata, "id")
    ELSE MetaGet(item.entity, "id")

RECURSIVE DedupeLoop(_, _, _, _)
DedupeLoop(flat, primary_key, seen, merged) ==
    IF flat = <<>> THEN merged
    ELSE LET item == Head(flat)
             key  == MergeKey(item, primary_key)
         IN  IF key = None \/ key \in seen
             THEN DedupeLoop(Tail(flat), primary_key, seen, merged)
             ELSE DedupeLoop(Tail(flat), primary_key, seen \cup {key},
                             Append(merged, item))

RECURSIVE Flatten(_)
Flatten(lists) ==
    IF lists = <<>> THEN <<>> ELSE Head(lists) \o Flatten(Tail(lists))

Reversed(s) == [i \in 1..Len(s) |-> s[Len(s) + 1 - i]]

\* a merge that keeps the last occurrence of a key instead of the first
merge_last_seen(results, primary_key, limit) ==
    SliceTo(SortByScoreDesc(Reversed(DedupeLoop(Reversed(Flatten(results)),
                                                primary_key, {}, <<>>))),
            limit)

\* a merge that flattens, sorts and truncates but drops nothing
merge_without_dedupe(results, primary_key, limit) ==
    SliceTo(SortByScoreDesc(Flatten(results)), limit)

\* HybridRetriever._merge_and_dedupe
_merge_and_dedupe(results, primary_key, limit) ==
    SliceTo(SortByScoreDesc(DedupeLoop(Flatten(results), primary_key, {}, <<>>)),
            limit)

(***************************************************************************)
(* Metadata filtering.  A filter dict is a set of entries                  *)
(* [key, is_list, value]; a scalar v is held as value = {v}.  None and {}  *)
(* are both the empty set (both are falsy).                                *)
(***************************************************************************)
EntryMatches(meta, e) ==
    IF e.is_list THEN MetaGet(meta, e.key) \in e.value
    ELSE {MetaGet(meta, e.key)} = e.value

RECURSIVE FilterLoop(_, _, _)
FilterLoop(metadata_list, filter_dict, i) ==
    IF i >= Len(metadata_list) THEN <<>>
    ELSE (IF \A e \in filter_dict : EntryMatches(metadata_list[i + 1], e)
          THEN <<i>> ELSE <<>>)
         \o FilterLoop(metadata_list, filter_dict, i + 1)

\* a filter that lets every document through
filter_accept_all(metadata_list, filter_dict) ==
    [i \in 1..Len(metadata_list) |-> i - 1]

\* HybridRetriever._filter_by_metadata: the (0-based) indices that match
_filter_by_metadata(metadata_list, filter_dict) ==
    IF filter_dict = {} THEN [i \in 1..Len(metadata_list) |-> i - 1]
    ELSE FilterLoop(metadata_list, filter_dict, 0)

(***************************************************************************)
(* FAISS search.                                                           *)
(***************************************************************************)
\* self.index.search(emb, n): the n nearest documents as <<distance, idx>>,
\* ascending distance; slots beyond the index size hold idx -1
index_search(query, n) ==
    LET size  == Len(faiss_metadata)
        order == SortSeq([i \in 1..size |-> i - 1],
                         LAMBDA i, j : \/ query.dist[i + 1] < query.dist[j + 1]
                                       \/ /\ query.dist[i + 1] = query.dist[j + 1]
                                          /\ i < j)
    IN  [p \in 1..n |-> IF p <= size THEN <<query.dist[order[p] + 1], order[p]>>
                        ELSE <<-1, -1>>]

RECURSIVE FaissLoop(_, _, _, _)
FaissLoop(cands, metadata_filter, k, results) ==
    IF cands = <<>> THEN results
    ELSE LET dist == Head(cands)[1]
             idx  == Head(cands)[2]
         IN  IF idx < 0 THEN FaissLoop(Tail(cands), metadata_filter, k, results)
             ELSE LET meta == faiss_metadata[idx + 1]
                  IN  IF /\ metadata_filter # {}
                         /\ ~InSeq(idx, _filter_by_metadata(<<meta>>, metadata_filter))
                      THEN FaissLoop(Tail(cands), metadata_filter, k, results)
                      ELSE LET appended ==
                                   Append(results,
                                          ChunkResult(idx, meta, <<1, 1 + dist>>, "faiss"))
                           IN  IF Len(appended) >= k THEN appended
                               ELSE FaissLoop(Tail(cands), metadata_filter, k, appended)

\* a vector search that never stops at k results
faiss_search_no_break(query, metadata_filter, k) ==
    IF k <= 0 THEN <<>>
    ELSE FaissLoop(index_search(query, k * OverFetch), metadata_filter,
                   k * OverFetch + 1, <<>>)

\* HybridRetriever.faiss_search
faiss_search(query, metadata_filter, k) ==
    IF k <= 0 THEN <<>>
    ELSE FaissLoop(index_search(query, k * OverFetch), metadata_filter, k, <<>>)

(***************************************************************************)
(* BM25 search.                                                            *)
(***************************************************************************)
RECURSIVE SeqMax(_)
SeqMax(s) == IF Len(s) = 1 THEN s[1] ELSE Max(s[1], SeqMax(Tail(s)))

\* HybridRetriever.bm25_search
bm25_search(query, metadata_filter, k) ==
    IF k <= 0 THEN <<>>
    ELSE IF query.bm25_raises THEN <<>>
    ELSE LET raw_scores   == query.raw
             max_score    == IF SeqMax(raw_scores) = 0 THEN 1 ELSE SeqMax(raw_scores)
             normalized   == [i \in 1..Len(raw_scores) |-> Ratio(raw_scores[i], max_score)]
             filtered_ids == _filter_by_metadata(bm25_metadata, metadata_filter)
             positive     == SelectSeq(filtered_ids, LAMBDA i : normalized[i + 1][1] > 0)
             items        == [p \in 1..Len(positive) |->
                                ChunkResult(positive[p], bm25_metadata[positive[p] + 1],
                                            normalized[positive[p] + 1], "bm25")]
         IN  SliceTo(SortByScoreDesc(items), k)

(***************************************************************************)
(* Graph search.  The result is [raised, results, ops, answered]: whether  *)
(* the call raised, the list it returned, the driver operations it issued, *)
(* and whether the backend answered at all (the call has no timeout: it    *)
(* waits in sess.run for as long as the backend stays silent).             *)
(***************************************************************************)
\* a graph search that does not test whether a driver is configured:
\* opening a session on the missing driver raises
graph_search_unguarded(query, metadata_filter, k) ==
    IF k <= 0
    THEN [raised |-> FALSE, results |-> <<>>, ops |-> <<>>, answered |-> TRUE]
    ELSE IF neo4j_driver = None \/ query.graph_fail = "session"
    THEN [raised |-> TRUE, results |-> <<>>, ops |-> <<"graph.session">>,
          answered |-> TRUE]
    ELSE IF query.graph_fail = "run"
    THEN [raised |-> FALSE, results |-> <<>>, ops |-> <<"graph.session", "graph.run">>,
          answered |-> TRUE]
    ELSE IF query.graph_fail = "hang"
    THEN [raised |-> FALSE, results |-> <<>>, ops |-> <<"graph.session", "graph.run">>,
          answered |-> FALSE]
    ELSE LET records == SliceTo(query.hits, k)
         IN  [raised  |-> FALSE,
              results |-> [p \in 1..Len(records) |->
                             GraphResult(records[p].id, records[p].score)],
              ops     |-> <<"graph.session", "graph.run">>,
              answered |-> TRUE]

\* HybridRetriever.graph_search
graph_search(query, metadata_filter, k) ==
    IF neo4j_driver = None \/ k <= 0
    THEN [raised |-> FALSE, results |-> <<>>, ops |-> <<>>, answered |-> TRUE]
    ELSE IF query.graph_fail = "session"
    THEN [raised |-> TRUE, results |-> <<>>, ops |-> <<"graph.session">>,
          answered |-> TRUE]
    ELSE IF query.graph_fail = "run"
    THEN [raised |-> FALSE, results |-> <<>>, ops |-> <<"graph.session", "graph.run">>,
          answered |-> TRUE]
    ELSE IF query.graph_fail = "hang"
    THEN [raised |-> FALSE, results |-> <<>>, ops |-> <<"graph.session", "graph.run">>,
          answered |-> FALSE]
    ELSE LET records == SliceTo(query.hits, k)
         IN  [raised  |-> FALSE,
              results |-> [p \in 1..Len(records) |->
                             GraphResult(records[p].id, records[p].score)],
              ops     |-> <<"graph.session", "graph.run">>,
              answered |-> TRUE]

(***************************************************************************)
(* Unified search.  The value holds the outcome, the returned list, and    *)
(* search's locals: the budget, the three backend lists, the backend       *)
(* operations issued.                                                      *)
(***************************************************************************)
\* (exc is "none" for a search that is still waiting for a backend)
Raised(exc, b, ops) ==
    [outcome |-> exc, result |-> <<>>, budget |-> b, graph_results |-> <<>>,
     faiss_results |-> <<>>, bm25_results |-> <<>>, queried |-> ops]

\* a validation that also rejects the two ends of the range
ValidArgsOpen(alpha, graph_ratio) ==
    /\ 0 < alpha /\ alpha < RatioDen
    /\ 0 < graph_ratio /\ graph_ratio < RatioDen

\* search's validation: 0 <= alpha <= 1 and 0 <= graph_ratio <= 1
ValidArgs(alpha, graph_ratio) ==
    /\ 0 <= alpha /\ alpha <= RatioDen
    /\ 0 <= graph_ratio /\ graph_ratio <= RatioDen

\* a final step that truncates the concatenation without sorting it
FinalRankConcat(merged, k) == SliceTo(merged, k)

\* search's final sort and truncation
FinalRank(merged, k) == SliceTo(SortByScoreDesc(merged), k)

\* search after validation, given the three backend lists
SearchMerge(b, g, fr, br, ops, k) ==
    LET merged == (IF g.results # <<>>
                   THEN _merge_and_dedupe(<<g.results>>, "entity", k)
                   ELSE <<>>)
                  \o _merge_and_dedupe(<<fr, br>>, "metadata", k)
    IN  [outcome |-> "returned", result |-> FinalRank(merged, k),
         budget |-> b, graph_results |-> g.results,
         faiss_results |-> fr, bm25_results |-> br, queried |-> ops]

\* a search whose lexical adapter lets a scoring error out
search_scoring_uncaught(query, metadata_filter, k, alpha, include_graph, graph_ratio) ==
    IF ~ValidArgs(alpha, graph_ratio) THEN Raised("ValueError", <<>>, <<>>)
    ELSE LET b == _allocate_budget(k, alpha, graph_ratio, include_graph)
             g == graph_search(query, metadata_filter, b[1])
             ops == g.ops
                    \o (IF b[2] > 0 THEN <<"faiss.search">> ELSE <<>>)
                    \o (IF b[3] > 0 THEN <<"bm25.get_scores">> ELSE <<>>)
         IN  IF ~g.answered THEN Raised("none", b, g.ops)
             ELSE IF g.raised THEN Raised("GraphError", b, g.ops)
             ELSE IF b[3] > 0 /\ query.bm25_raises THEN Raised("ScoringError", b, ops)
             ELSE SearchMerge(b, g,
                              faiss_search(query, metadata_filter, b[2]),
                              bm25_search(query, metadata_filter, b[3]),
                              ops, k)

\* HybridRetriever.search (retrieval/hybrid_retriever.py)
search(query, metadata_filter, k, alpha, include_graph, graph_ratio) ==
    IF ~ValidArgs(alpha, graph_ratio) THEN Raised("ValueError", <<>>, <<>>)
    ELSE LET b == _allocate_budget(k, alpha, graph_ratio, include_graph)
             g == graph_search(query, metadata_filter, b[1])
         IN  IF ~g.answered THEN Raised("none", b, g.ops)
             ELSE IF g.raised THEN Raised("GraphError", b, g.ops)
             ELSE SearchMerge(b, g,
                              faiss_search(query, metadata_filter, b[2]),
                              bm25_search(query, metadata_filter, b[3]),
                              g.ops
                              \o (IF b[2] > 0 THEN <<"faiss.search">> ELSE <<>>)
                              \o (IF b[3] > 0 THEN <<"bm25.get_scores">> ELSE <<>>),
                              k)

(***************************************************************************)
(* The aimw retriever (aimw/app/services/retrieve.py): FAISS and BM25      *)
(* only.  A candidate of the vector search is [doc, metadata, distance],   *)
(* doc being the idx of the document in the docstore.                      *)
(***************************************************************************)
\* FilteredBM25.matches_filter: every filter value must equal the metadata
\* value; a list never equals a (scalar) metadata value
matches_filter(doc_metadata, metadata_filter) ==
    \A e \in metadata_filter :
        ~e.is_list /\ {MetaGet(doc_metadata, e.key)} = e.value

\* FilteredBM25.get_scores: the relevance of the documents that pass the
\* filter, zero for the others
get_scores(query, metadata_filter) ==
    [i \in 1..Len(bm25_metadata) |->
        IF matches_filter(bm25_metadata[i], metadata_filter)
        THEN query.raw[i] ELSE 0]

\* HybridRetriever._matches_filter
_matches_filter(metadata, filter_dict) ==
    \A e \in filter_dict : EntryMatches(metadata, e)

Candidate(pair) ==
    [doc |-> pair[2], metadata |-> faiss_metadata[pair[2] + 1], distance |-> pair[1]]

\* one pass over the hits of a lookup in the progressive search
RECURSIVE ScanLoop(_, _, _, _)
ScanLoop(found, filtered_indices, k, results) ==
    IF found = <<>> THEN results
    ELSE LET i == Head(found)[2]
         IN  IF i = -1 \/ i \notin filtered_indices
             THEN ScanLoop(Tail(found), filtered_indices, k, results)
             ELSE LET appended == Append(results, Candidate(Head(found)))
                  IN  IF Len(appended) >= k THEN appended
                      ELSE ScanLoop(Tail(found), filtered_indices, k, appended)

\* a loop condition without the cap on the attempts
FetchMoreUncapped(results, k, attempt) == Len(results) < k

\* the condition of the while loop of the progressive search
FetchMore(results, k, attempt) == Len(results) < k /\ attempt < MaxAttempts

\* current_fetch_k: the window of the lookup of this attempt
FetchWindow(fetch_k, attempt, size) == Min(fetch_k * (2 ^ attempt), size)

\* the documents of the vector index that pass the filter (filtered_indices)
FilteredIndices(metadata_filter) ==
    {i \in 0..(Len(faiss_metadata) - 1) :
         _matches_filter(faiss_metadata[i + 1], metadata_filter)}

\* the progressive search: up to max_attempts lookups with a doubling
\* window; the value is [results, ops], ops being the lookups issued
RECURSIVE FetchLoop(_, _, _, _, _, _, _)
FetchLoop(query, filtered_indices, k, fetch_k, attempt, results, ops) ==
    IF ~FetchMore(results, k, attempt)
    THEN [results |-> results, ops |-> ops]
    ELSE LET size            == Len(faiss_metadata)
             current_fetch_k == FetchWindow(fetch_k, attempt, size)
             scanned         == ScanLoop(index_search(query, current_fetch_k),
                                         filtered_indices, k, results)
             issued          == Append(ops, "faiss.search")
         IN  IF current_fetch_k >= size THEN [results |-> scanned, ops |-> issued]
             ELSE FetchLoop(query, filtered_indices, k, fetch_k, attempt + 1,
                            scanned, issued)

\* HybridRetriever.optimized_faiss_search: [results, ops].  Without a
\* filter the store is asked for k documents, and a k <= 0 makes that
\* lookup raise, which is caught.
optimized_faiss_search(query, metadata_filter, k, fetch_k) ==
    IF metadata_filter = {}
    THEN IF k <= 0 THEN [results |-> <<>>, ops |-> <<"faiss.search">>]
         ELSE LET found == SelectSeq(index_search(query, k), LAMBDA c : c[2] # -1)
              IN  [results |-> [p \in 1..Len(found) |-> Candidate(found[p])],
                   ops |-> <<"faiss.search">>]
    ELSE LET filtered_indices == FilteredIndices(metadata_filter)
         IN  IF filtered_indices = {} THEN [results |-> <<>>, ops |-> <<>>]
             ELSE LET fetched == FetchLoop(query, filtered_indices, k, fetch_k,
                                           0, <<>>, <<>>)
                  IN  [results |-> SliceTo(fetched.results, k), ops |-> fetched.ops]

\* a split without the two adjustments that follow the truncation
aimw_allocate_truncated(k, alpha) ==
    <<IntTrunc(alpha * k, RatioDen), k - IntTrunc(alpha * k, RatioDen)>>

\* the split of k between FAISS and BM25 in the aimw search
aimw_allocate(k, alpha) ==
    LET k_faiss == IntTrunc(alpha * k, RatioDen)
        k_bm25  == k - k_faiss
    IN  IF k_faiss = 0 /\ alpha > 0 THEN <<1, k - 1>>
        ELSE IF k_bm25 = 0 /\ alpha < RatioDen THEN <<k - 1, 1>>
        ELSE <<k_faiss, k_bm25>>

\* the two loops over faiss_results: take the candidates whose id is new
\* until `docs` holds `limit` results.  The first loop tests the length
\* after each candidate, the fill loop (test_first) before each candidate.
RECURSIVE TakeFaiss(_, _, _, _, _)
TakeFaiss(cands, seen_ids, docs, limit, test_first) ==
    IF cands = <<>> THEN [docs |-> docs, seen_ids |-> seen_ids]
    ELSE IF test_first /\ Len(docs) >= limit THEN [docs |-> docs, seen_ids |-> seen_ids]
    ELSE LET c      == Head(cands)
             doc_id == MetaGet(c.metadata, "id")
             fresh  == doc_id \notin seen_ids
             docs2  == IF fresh
                       THEN Append(docs, ChunkResult(c.doc, c.metadata,
                                                     <<1, 1 + c.distance>>, "FAISS"))
                       ELSE docs
             seen2  == IF fresh THEN seen_ids \cup {doc_id} ELSE seen_ids
         IN  IF ~test_first /\ Len(docs2) >= limit
             THEN [docs |-> docs2, seen_ids |-> seen2]
             ELSE TakeFaiss(Tail(cands), seen2, docs2, limit, test_first)

\* the loop over the positive BM25 scores, best first
RECURSIVE TakeBm25(_, _, _, _)
TakeBm25(sorted_indices, seen_ids, bm25_docs, k_bm25) ==
    IF sorted_indices = <<>> \/ Len(bm25_docs) >= k_bm25
    THEN [docs |-> bm25_docs, seen_ids |-> seen_ids]
    ELSE LET item   == Head(sorted_indices)
             doc_id == MetaGet(item.metadata, "id")
         IN  IF doc_id \in seen_ids
             THEN TakeBm25(Tail(sorted_indices), seen_ids, bm25_docs, k_bm25)
             ELSE TakeBm25(Tail(sorted_indices), seen_ids \cup {doc_id},
                           Append(bm25_docs, item), k_bm25)

\* the positive BM25 scores as result items, best first
Bm25Ranked(bm25_scores) ==
    LET non_zero == SelectSeq([i \in 1..Len(bm25_scores) |-> i - 1],
                              LAMBDA idx : bm25_scores[idx + 1] > 0)
    IN  SortByScoreDesc([p \in 1..Len(non_zero) |->
            ChunkResult(non_zero[p], bm25_metadata[non_zero[p] + 1],
                        <<bm25_scores[non_zero[p] + 1], 1>>, "BM25")])

\* search, given the split and the candidates of the vector search
AimwMerge(query, metadata_filter, k, b, found) ==
    LET candidates  == found.results
        first       == TakeFaiss(candidates, {}, <<>>, b[1], FALSE)
        bm25_scores == IF query.bm25_raises THEN [i \in 1..Len(bm25_metadata) |-> 0]
                       ELSE get_scores(query, metadata_filter)
        second      == TakeBm25(Bm25Ranked(bm25_scores), first.seen_ids, <<>>, b[2])
        combined    == first.docs \o second.docs
        filled      == IF Len(combined) < k /\ Len(candidates) > Len(first.docs)
                       THEN TakeFaiss(candidates, second.seen_ids, combined, k, TRUE).docs
                       ELSE combined
    IN  [outcome |-> "returned", result |-> SliceTo(filled, k), budget |-> b,
         graph_results |-> <<>>, faiss_results |-> candidates,
         bm25_results |-> second.docs,
         queried |-> found.ops \o <<"bm25.get_scores">>]

\* HybridRetriever.search (aimw/app/services/retrieve.py)
aimw_search(query, metadata_filter, k, alpha) ==
    LET b == aimw_allocate(k, alpha)
    IN  AimwMerge(query, metadata_filter, k, b,
                  optimized_faiss_search(query, metadata_filter, b[1] * 2, FetchK))

(***************************************************************************)
(* Corpora.  The same chunks are loaded into both indices.  Document i     *)
(* normally carries its own id; the id patterns add documents that share   *)
(* an id and documents without one.  Categories rotate over the corpus.    *)
(***************************************************************************)
Cats == <<"A", "B", "C">>

DocId(i) == "d" \o ToString(i)

IdPatterns ==
    { [i \in 1..NumDocs |-> DocId(i)],
      [i \in 1..NumDocs |-> DocId(1)],
      [i \in 1..NumDocs |-> IF i = 2 THEN DocId(1) ELSE DocId(i)],
      [i \in 1..NumDocs |-> IF i = 1 THEN None ELSE DocId(i)],
      [i \in 1..NumDocs |-> IF i = NumDocs THEN None ELSE DocId(i)] }

CatPatterns ==
    { [i \in 1..NumDocs |-> Cats[((i + r) % Len(Cats)) + 1]] : r \in 0..(Len(Cats) - 1) }

Corpora ==
    { [i \in 1..NumDocs |-> [id |-> ids[i], category |-> cats[i]]] :
        ids \in IdPatterns, cats \in CatPatterns }

(***************************************************************************)
(* Queries and search calls.                                               *)
(***************************************************************************)
Filters ==
    { {},
      {[key |-> "category", is_list |-> FALSE, value |-> {"A"}]},
      {[key |-> "category", is_list |-> TRUE, value |-> {"A", "B"}]} }

\* distances of the documents to the query: nearest first, nearest last,
\* the last document nearest, all at the same distance
DistPatterns ==
    { [i \in 1..NumDocs |-> i - 1],
      [i \in 1..NumDocs |-> NumDocs - i],
      [i \in 1..NumDocs |-> i % NumDocs],
      [i \in 1..NumDocs |-> 0] }

Ramp == [i \in 1..NumDocs |-> i - 1]

Zeros == [i \in 1..NumDocs |-> 0]

Ones == [i \in 1..NumDocs |-> 1]

High == <<2, 1>>

Low == <<1, 2>>

HitLists ==
    { <<>>,
      <<[id |-> "e1", score |-> High]>>,
      <<[id |-> "e1", score |-> Low]>>,
      <<[id |-> None, score |-> High]>>,
      <<[id |-> "e1", score |-> High], [id |-> "e2", score |-> Low]>>,
      <<[id |-> "e1", score |-> Low], [id |-> "e2", score |-> Low]>>,
      <<[id |-> "e1", score |-> High], [id |-> "e1", score |-> Low]>>,
      <<[id |-> "e1", score |-> High], [id |-> "e2", score |-> High],
        [id |-> "e3", score |-> Low]>> }

\* the ratios given as alpha and graph_ratio: both ends of [0,1], the
\* middle, and a value beyond each end
Ratios == {-1, 0, RatioDen \div 2, RatioDen, RatioDen + 1}

ValidRatios == {0, RatioDen \div 2, RatioDen}

\* calls that vary the numeric arguments, the text and the graph switch
ArgCalls ==
    [query : { [text |-> t, dist |-> Ramp, raw |-> IF t = "" THEN Zeros ELSE Ones,
                bm25_raises |-> FALSE,
                hits |-> <<[id |-> "e1", score |-> High], [id |-> "e2", score |-> Low]>>,
                graph_fail |-> "none"] : t \in {"", "q"} },
     metadata_filter : {{}},
     k : -1..MaxK, alpha : Ratios, include_graph : BOOLEAN, graph_ratio : Ratios]

\* calls that vary what the vector and lexical indices hold for the query
ContentCalls ==
    [query : [text : {"q"}, dist : DistPatterns, raw : [1..NumDocs -> 0..2],
              bm25_raises : {FALSE}, hits : {<<>>}, graph_fail : {"none"}],
     metadata_filter : Filters,
     k : 1..MaxK, alpha : ValidRatios, include_graph : {FALSE},
     graph_ratio : {RatioDen \div 2}]

\* calls that vary what the graph backend answers and where it fails
GraphCalls ==
    [query : [text : {"q"}, dist : {Ramp}, raw : {Ramp}, bm25_raises : BOOLEAN,
              hits : HitLists, graph_fail : {"none", "session", "run", "hang"}],
     metadata_filter : {{}},
     k : 1..MaxK, alpha : ValidRatios, include_graph : {TRUE},
     graph_ratio : {RatioDen \div 2, RatioDen}]

\* calls that vary the sign of the relevance scores of the lexical index
\* (BM25 gives a negative score to a term most documents contain)
SignedScores == [1..NumDocs -> {-2, -1, 0, 1}]

LexicalCalls ==
    [query : [text : {"q"}, dist : {Ramp}, raw : SignedScores,
              bm25_raises : {FALSE}, hits : {<<>>}, graph_fail : {"none"}],
     metadata_filter : Filters,
     k : 1..MaxK, alpha : {0, RatioDen \div 2}, include_graph : {FALSE},
     graph_ratio : {RatioDen \div 2}]

SearchCalls == ArgCalls \cup ContentCalls \cup GraphCalls \cup LexicalCalls

\* calls of the aimw search: the index contents vary, then the arguments
AimwCalls ==
    [query : [text : {"q"}, dist : DistPatterns, raw : [1..NumDocs -> 0..2],
              bm25_raises : {FALSE}, hits : {<<>>}, graph_fail : {"none"}],
     metadata_filter : Filters, k : 1..MaxK, alpha : ValidRatios]
    \cup
    [query : [text : {"", "q"}, dist : {Ramp}, raw : {Zeros}, bm25_raises : BOOLEAN,
              hits : {<<>>}, graph_fail : {"none"}],
     metadata_filter : {{}}, k : 0..MaxK, alpha : 0..RatioDen]
    \cup
    [query : [text : {"q"}, dist : {Ramp}, raw : SignedScores,
              bm25_raises : {FALSE}, hits : {<<>>}, graph_fail : {"none"}],
     metadata_filter : Filters, k : 1..MaxK, alpha : {0, RatioDen \div 2}]

\* the shortfall scenario: a larger corpus with distinct ids, of which only
\* ShortfallMatches documents match the query lexically; graph disabled
ShortfallCorpus ==
    [i \in 1..ShortfallDocs |-> [id |-> DocId(i), category |-> Cats[1]]]

ShortfallQueries ==
    { [text |-> "q", dist |-> d,
       raw |-> [i \in 1..ShortfallDocs |-> IF i \in S THEN 1 + (i % 2) ELSE 0],
       bm25_raises |-> FALSE, hits |-> <<>>, graph_fail |-> "none"] :
        S \in {T \in SUBSET (1..ShortfallDocs) : Cardinality(T) = ShortfallMatches},
        d \in { [i \in 1..ShortfallDocs |-> i - 1],
                [i \in 1..ShortfallDocs |-> ShortfallDocs - i] } }

ShortfallCalls ==
    [query : ShortfallQueries, metadata_filter : {{}}, k : {ShortfallK},
     alpha : {RatioDen \div 2}, include_graph : {FALSE},
     graph_ratio : {RatioDen \div 2}]

\* the calls made on a retriever after close() or __exit__
LifecycleCalls ==
    [query : [text : {"q"}, dist : {Ramp}, raw : {Ramp}, bm25_raises : {FALSE},
              hits : {<<>>, <<[id |-> "e1", score |-> High],
                              [id |-> "e2", score |-> Low]>>},
              graph_fail : {"none"}],
     metadata_filter : {{}},
     k : {0, MaxK}, alpha : {RatioDen \div 2}, include_graph : BOOLEAN,
     graph_ratio : {RatioDen \div 2}]

\* the calls made on a retriever, by the corpus it has loaded
CallsOn(corpus, calls) ==
    IF corpus = ShortfallCorpus THEN ShortfallCalls
    ELSE IF closes # <<>> THEN LifecycleCalls
    ELSE calls

\* a closed driver does not answer: opening a session on it raises, or the
\* session is handed out and running the query raises
OnDriver(c) ==
    IF neo4j_driver = "closed" /\ c.query.graph_fail = "none"
    THEN {[c EXCEPT !.query.graph_fail = f] : f \in {"session", "run"}}
    ELSE {c}

NoCall == [k |-> 0]

(***************************************************************************)
(* The retriever serving one search.                                       *)
(***************************************************************************)
\* no compliance workflow has been started
NoWorkflow ==
    /\ pending_checks = <<>>
    /\ current_check = ""
    /\ check_results = <<>>
    /\ answer = <<>>
    /\ executed = <<>>

\* a retriever that has served nothing yet
Idle ==
    /\ call = NoCall
    /\ pc = "ready"
    /\ budget = <<>>
    /\ graph_results = <<>>
    /\ faiss_results = <<>>
    /\ bm25_results = <<>>
    /\ queried = <<>>
    /\ outcome = "none"
    /\ result = <<>>
    /\ fetch_attempt = 0
    /\ fetch_windows = <<>>
    /\ closes = <<>>
    /\ released = 0
    /\ NoWorkflow

Init ==
    /\ retriever \in {"retrieval", "aimw"}
    /\ faiss_metadata \in Corpora
    /\ bm25_metadata = faiss_metadata
    /\ neo4j_driver \in (IF retriever = "retrieval" THEN {None, "open"} ELSE {None})
    /\ Idle

\* a search that gives the driver back once the graph has been asked
SearchReleasingDriver ==
    /\ retriever = "retrieval"
    /\ pc = "ready"
    /\ \E c0 \in CallsOn(faiss_metadata, SearchCalls) : \E c \in OnDriver(c0) :
          \E r \in {search(c.query, c.metadata_filter, c.k, c.alpha,
                           c.include_graph, c.graph_ratio)} :
              /\ call' = c
              /\ budget' = r.budget
              /\ graph_results' = r.graph_results
              /\ faiss_results' = r.faiss_results
              /\ bm25_results' = r.bm25_results
              /\ queried' = r.queried
              /\ outcome' = r.outcome
              /\ result' = r.result
              /\ pc' = IF r.outcome = "none" THEN "blocked" ELSE "done"
              /\ neo4j_driver' = IF InSeq("graph.run", r.queried)
                                 THEN "closed" ELSE neo4j_driver
    /\ UNCHANGED <<workflow, retriever, faiss_metadata, bm25_metadata,
                   fetch_attempt, fetch_windows, closes, released>>

Search ==
    /\ retriever = "retrieval"
    /\ pc = "ready"
    /\ \E c0 \in CallsOn(faiss_metadata, SearchCalls) : \E c \in OnDriver(c0) :
          \E r \in {search(c.query, c.metadata_filter, c.k, c.alpha,
                           c.include_graph, c.graph_ratio)} :
              /\ call' = c
              /\ budget' = r.budget
              /\ graph_results' = r.graph_results
              /\ faiss_results' = r.faiss_results
              /\ bm25_results' = r.bm25_results
              /\ queried' = r.queried
              /\ outcome' = r.outcome
              /\ result' = r.result
              /\ pc' = IF r.outcome = "none" THEN "blocked" ELSE "done"
    /\ UNCHANGED <<workflow, fields, fetch_attempt, fetch_windows, closes, released>>

SearchAimw ==
    /\ retriever = "aimw"
    /\ pc = "ready"
    /\ \E c \in CallsOn(faiss_metadata, AimwCalls) :
          \E r \in {aimw_search(c.query, c.metadata_filter, c.k, c.alpha)} :
              /\ call' = c
              /\ budget' = r.budget
              /\ graph_results' = r.graph_results
              /\ faiss_results' = r.faiss_results
              /\ bm25_results' = r.bm25_results
              /\ queried' = r.queried
              /\ outcome' = r.outcome
              /\ result' = r.result
    /\ pc' = "done"
    /\ UNCHANGED <<workflow, fields, fetch_attempt, fetch_windows, closes, released>>

\* the release both close() and __exit__ perform: the driver, when there
\* is one, is closed; the field keeps referring to it
ReleaseDriver ==
    IF neo4j_driver # None
    THEN neo4j_driver' = "closed" /\ released' = released + 1
    ELSE UNCHANGED <<neo4j_driver, released>>

\* HybridRetriever.close
Close ==
    /\ retriever = "retrieval"
    /\ pc = "ready"
    /\ Len(closes) < MaxCloses
    /\ closes' = Append(closes, "close")
    /\ ReleaseDriver
    /\ UNCHANGED <<workflow, retriever, faiss_metadata, bm25_metadata, served, pc,
                   fetch_attempt, fetch_windows>>

\* HybridRetriever.__exit__
Exit ==
    /\ retriever = "retrieval"
    /\ pc = "ready"
    /\ Len(closes) < MaxCloses
    /\ closes' = Append(closes, "__exit__")
    /\ ReleaseDriver
    /\ UNCHANGED <<workflow, retriever, faiss_metadata, bm25_metadata, served, pc,
                   fetch_attempt, fetch_windows>>

Next == Search \/ SearchAimw \/ Close \/ Exit

Spec == Init /\ [][Next]_vars

\* the same retrievers, loaded with the corpus of the shortfall scenario
InitShortfall ==
    /\ retriever \in {"retrieval", "aimw"}
    /\ faiss_metadata = ShortfallCorpus
    /\ bm25_metadata = faiss_metadata
    /\ neo4j_driver = None
    /\ Idle

SpecShortfall == InitShortfall /\ [][Next]_vars

(***************************************************************************)
(* The vector adapters called on their own, the progressive search of the  *)
(* aimw retriever one loop iteration at a time.  The corpora are larger    *)
(* than the small fetch_k arguments, so that a lookup can miss documents.  *)
(***************************************************************************)
FetchCorpora ==
    { [i \in 1..FetchDocs |-> [id |-> DocId(i), category |-> cats[i]]] :
        cats \in [1..FetchDocs -> {Cats[1], Cats[3]}] }

FetchQueries ==
    { [text |-> "q", dist |-> d, raw |-> [i \in 1..FetchDocs |-> 0],
       bm25_raises |-> FALSE, hits |-> <<>>, graph_fail |-> "none"] :
        d \in { [i \in 1..FetchDocs |-> i - 1],
                [i \in 1..FetchDocs |-> FetchDocs - i] } }

FetchCalls ==
    [query : FetchQueries, metadata_filter : Filters, k : 0..MaxK,
     fetch_k : (1..SmallFetchK) \cup {FetchK}]

InitFetch ==
    /\ retriever \in {"retrieval", "aimw"}
    /\ faiss_metadata \in FetchCorpora
    /\ bm25_metadata = faiss_metadata
    /\ neo4j_driver = None
    /\ Idle

\* optimized_faiss_search up to its while loop: the lookup without a
\* filter, the early return when no document passes the filter
FetchBegin ==
    /\ retriever = "aimw"
    /\ pc = "ready"
    /\ \E c \in FetchCalls :
          /\ call' = c
          /\ IF c.metadata_filter = {}
             THEN \E r \in {optimized_faiss_search(c.query, {}, c.k, c.fetch_k)} :
                      /\ result' = r.results
                      /\ queried' = r.ops
                      /\ fetch_windows' = <<c.k>>
                      /\ outcome' = "returned"
                      /\ pc' = "done"
             ELSE /\ result' = <<>>
                  /\ queried' = <<>>
                  /\ fetch_windows' = <<>>
                  /\ IF FilteredIndices(c.metadata_filter) = {}
                     THEN outcome' = "returned" /\ pc' = "done"
                     ELSE outcome' = "none" /\ pc' = "fetching"
    /\ faiss_results' = <<>>
    /\ fetch_attempt' = 0
    /\ UNCHANGED <<workflow, fields, budget, graph_results, bm25_results, closes, released>>

\* one iteration of the while loop: a lookup and the scan of its hits
FetchAttempt ==
    /\ pc = "fetching"
    /\ FetchMore(faiss_results, call.k, fetch_attempt)
    /\ LET size            == Len(faiss_metadata)
           current_fetch_k == FetchWindow(call.fetch_k, fetch_attempt, size)
       IN  /\ faiss_results' =
                  ScanLoop(index_search(call.query, current_fetch_k),
                           FilteredIndices(call.metadata_filter), call.k,
                           faiss_results)
           /\ fetch_windows' = Append(fetch_windows, current_fetch_k)
           /\ queried' = Append(queried, "faiss.search")
           /\ pc' = IF current_fetch_k >= size THEN "fetched" ELSE "fetching"
    /\ fetch_attempt' = fetch_attempt + 1
    /\ UNCHANGED <<workflow, fields, call, budget, graph_results, bm25_results, outcome,
                   result, closes, released>>

\* the loop is left (its condition is false, or the break): return results[:k]
FetchReturn ==
    /\ \/ pc = "fetched"
       \/ pc = "fetching" /\ ~FetchMore(faiss_results, call.k, fetch_attempt)
    /\ result' = SliceTo(faiss_results, call.k)
    /\ outcome' = "returned"
    /\ pc' = "done"
    /\ UNCHANGED <<workflow, fields, call, budget, graph_results, faiss_results,
                   bm25_results, queried, fetch_attempt, fetch_windows,
                   closes, released>>

\* faiss_search of the retrieval retriever: one lookup of k * 5 candidates
FaissSearch ==
    /\ retriever = "retrieval"
    /\ pc = "ready"
    /\ \E c \in FetchCalls :
          /\ c.fetch_k = FetchK
          /\ call' = c
          /\ result' = faiss_search(c.query, c.metadata_filter, c.k)
          /\ queried' = IF c.k > 0 THEN <<"faiss.search">> ELSE <<>>
          /\ fetch_windows' = IF c.k > 0 THEN <<c.k * OverFetch>> ELSE <<>>
    /\ outcome' = "returned"
    /\ pc' = "done"
    /\ UNCHANGED <<workflow, fields, budget, graph_results, faiss_results, bm25_results,
                   fetch_attempt, closes, released>>

NextFetch == FetchBegin \/ FetchAttempt \/ FetchReturn \/ FaissSearch

SpecFetch == InitFetch /\ [][NextFetch]_vars

\* a call that was started keeps running until it returns
SpecFetchLive == SpecFetch /\ WF_vars(NextFetch)

(***************************************************************************)
(* The budget allocators applied to every argument tuple of a grid.        *)
(***************************************************************************)
(***************************************************************************)
(* The two filter predicates of the aimw retriever applied to one          *)
(* metadata record and one filter.                                         *)
(***************************************************************************)
FilterMetadata ==
    [id : {None, DocId(1)}, category : {None} \cup {Cats[i] : i \in 1..Len(Cats)}]

\* the entries a filter can hold for a key: a scalar, or a list
CategoryEntries ==
    {[key |-> "category", is_list |-> FALSE, value |-> {c}] : c \in {Cats[1], Cats[3]}}
    \cup {[key |-> "category", is_list |-> TRUE, value |-> v] :
              v \in {{}, {Cats[1]}, {Cats[1], Cats[2]}}}

IdEntries ==
    { [key |-> "id", is_list |-> FALSE, value |-> {DocId(1)}],
      [key |-> "id", is_list |-> TRUE, value |-> {DocId(1)}] }

\* filters with at most one entry per key
FilterDicts ==
    {c \cup i : c \in {{}} \cup {{e} : e \in CategoryEntries},
                i \in {{}} \cup {{e} : e \in IdEntries}}

InitFilter ==
    /\ retriever = "aimw"
    /\ faiss_metadata = <<>>
    /\ bm25_metadata = <<>>
    /\ neo4j_driver = None
    /\ call \in [metadata : FilterMetadata, metadata_filter : FilterDicts]
    /\ pc = "ready"
    /\ budget = <<>>
    /\ graph_results = <<>>
    /\ faiss_results = <<>>
    /\ bm25_results = <<>>
    /\ queried = <<>>
    /\ outcome = "none"
    /\ result = <<>>
    /\ fetch_attempt = 0
    /\ fetch_windows = <<>>
    /\ closes = <<>>
    /\ released = 0
    /\ NoWorkflow

\* the vector side asks _matches_filter, the lexical side matches_filter
MatchFilters ==
    /\ pc = "ready"
    /\ result' = [vector  |-> _matches_filter(call.metadata, call.metadata_filter),
                  lexical |-> matches_filter(call.metadata, call.metadata_filter)]
    /\ outcome' = "returned"
    /\ pc' = "done"
    /\ UNCHANGED <<workflow, fields, call, budget, graph_results, faiss_results,
                   bm25_results, queried, fetch_attempt, fetch_windows,
                   closes, released>>

NextFilter == MatchFilters

SpecFilter == InitFilter /\ [][NextFilter]_vars

AllocCalls ==
    [k : 0..MaxAllocK, alpha : 0..RatioDen, include_graph : BOOLEAN,
     graph_ratio : 0..RatioDen]

InitAlloc ==
    /\ retriever = "retrieval"
    /\ faiss_metadata = <<>>
    /\ bm25_metadata = <<>>
    /\ neo4j_driver = None
    /\ call \in AllocCalls
    /\ pc = "ready"
    /\ budget = <<>>
    /\ graph_results = <<>>
    /\ faiss_results = <<>>
    /\ bm25_results = <<>>
    /\ queried = <<>>
    /\ outcome = "none"
    /\ result = <<>>
    /\ fetch_attempt = 0
    /\ fetch_windows = <<>>
    /\ closes = <<>>
    /\ released = 0
    /\ NoWorkflow

Allocate ==
    /\ pc = "ready"
    /\ budget' = _allocate_budget(call.k, call.alpha, call.graph_ratio,
                                  call.include_graph)
    /\ pc' = "done"
    /\ UNCHANGED <<workflow, fields, call, graph_results, faiss_results, bm25_results,
                   queried, outcome, result, fetch_attempt, fetch_windows,
                   closes, released>>

NextAlloc == Allocate

SpecAlloc == InitAlloc /\ [][NextAlloc]_vars

\* the aimw search up to its split of k
AimwAllocCalls == [k : 0..MaxAllocK, alpha : 0..RatioDen]

InitAllocAimw ==
    /\ retriever = "aimw"
    /\ faiss_metadata = <<>>
    /\ bm25_metadata = <<>>
    /\ neo4j_driver = None
    /\ call \in AimwAllocCalls
    /\ pc = "ready"
    /\ budget = <<>>
    /\ graph_results = <<>>
    /\ faiss_results = <<>>
    /\ bm25_results = <<>>
    /\ queried = <<>>
    /\ outcome = "none"
    /\ result = <<>>
    /\ fetch_attempt = 0
    /\ fetch_windows = <<>>
    /\ closes = <<>>
    /\ released = 0
    /\ NoWorkflow

AllocateAimw ==
    /\ pc = "ready"
    /\ budget' = aimw_allocate(call.k, call.alpha)
    /\ pc' = "done"
    /\ UNCHANGED <<workflow, fields, call, graph_results, faiss_results, bm25_results,
                   queried, outcome, result, fetch_attempt, fetch_windows,
                   closes, released>>

NextAllocAimw == AllocateAimw

SpecAllocAimw == InitAllocAimw /\ [][NextAllocAimw]_vars

(***************************************************************************)
(* Properties of the budget allocation.                                    *)
(***************************************************************************)
\* C1: for every k >= 1, alpha and graph_ratio in [0,1] and either value of
\* include_graph, _allocate_budget returns three non-negative numbers that
\* add up to k.
BudgetConservation ==
    (pc = "done" /\ budget # <<>> /\ call.k >= 1)
        => /\ budget[1] + budget[2] + budget[3] = call.k
           /\ budget[1] >= 0 /\ budget[2] >= 0 /\ budget[3] >= 0

\* an allocation that gives every backend a share
BudgetAllThree ==
    /\ pc = "done" /\ budget # <<>> /\ call.k >= 1 /\ call.include_graph
    /\ budget[1] > 0 /\ budget[2] > 0 /\ budget[3] > 0
    /\ budget[1] + budget[2] + budget[3] = call.k

\* C6: whenever alpha > 0 and remaining = k - k_graph > 0, the allocation
\* gives the vector backend at least one slot.
ForcedVectorMinimum ==
    (pc = "done" /\ budget # <<>> /\ call.alpha > 0 /\ call.k - budget[1] > 0)
        => budget[2] >= 1

(***************************************************************************)
(* Properties of search.                                                   *)
(***************************************************************************)
Returned == pc = "done" /\ outcome = "returned"

ReturnedBy(r) == retriever = r /\ Returned

IsChunk(r) == r.retrieval_method \in {"faiss", "bm25", "FAISS", "BM25"}

IsGraph(r) == r.retrieval_method = "graph"

CountMethod(s, m) == Cardinality({i \in 1..Len(s) : s[i].retrieval_method = m})

ListFilterAB == {[key |-> "category", is_list |-> TRUE, value |-> {"A", "B"}]}

ScalarFilterA == {[key |-> "category", is_list |-> FALSE, value |-> {"A"}]}

\* C2: the list returned by search never holds two chunk results with the
\* same metadata id, nor two graph results with the same entity id.
NoDuplicateIdentity ==
    Returned =>
        \A i, j \in 1..Len(result) :
            i < j =>
                /\ (IsChunk(result[i]) /\ IsChunk(result[j]))
                       => result[i].metadata.id # result[j].metadata.id
                /\ (IsGraph(result[i]) /\ IsGraph(result[j]))
                       => result[i].entity.id # result[j].entity.id

\* the vector and the lexical backend both returned one chunk id, the graph
\* backend returned one entity id twice, and each is in the response once
SharedChunkReturnedOnce ==
    /\ Returned
    /\ \E f \in 1..Len(faiss_results), b \in 1..Len(bm25_results) :
          /\ faiss_results[f].metadata.id = bm25_results[b].metadata.id
          /\ Cardinality({i \in 1..Len(result) :
                 /\ IsChunk(result[i])
                 /\ result[i].metadata.id = faiss_results[f].metadata.id}) = 1

DuplicateEntityReturnedOnce ==
    /\ Returned
    /\ \E g, h \in 1..Len(graph_results) :
          /\ g < h
          /\ graph_results[g].entity.id = graph_results[h].entity.id
          /\ Cardinality({i \in 1..Len(result) :
                 /\ IsGraph(result[i])
                 /\ result[i].entity.id = graph_results[g].entity.id}) = 1

FilterSoundness ==
    Returned =>
        \A i \in 1..Len(result) :
            IsChunk(result[i]) =>
                /\ call.metadata_filter = ListFilterAB
                       => result[i].metadata.category \in {"A", "B"}
                /\ call.metadata_filter = ScalarFilterA
                       => result[i].metadata.category = "A"

\* a filtered response with a vector and a lexical result, over a corpus
\* whose best lexical match has category C
FilteredOutBestMatch ==
    /\ Returned
    /\ call.metadata_filter = ListFilterAB
    /\ CountMethod(result, "faiss") > 0
    /\ CountMethod(result, "bm25") > 0
    /\ \E d \in 1..Len(bm25_metadata) :
          /\ bm25_metadata[d].category = "C"
          /\ \A e \in 1..Len(bm25_metadata) : call.query.raw[d] >= call.query.raw[e]
          /\ call.query.raw[d] > 0

\* C5: when the graph backend fails (opening the session or running the
\* query raises), search with include_graph still returns normally, with
\* results from the vector and lexical backends only.
GraphFailureContained ==
    (/\ retriever = "retrieval"
     /\ pc = "done"
     /\ ValidArgs(call.alpha, call.graph_ratio)
     /\ call.include_graph
     /\ call.query.graph_fail \in {"session", "run"})
        => /\ outcome = "returned"
           /\ \A i \in 1..Len(result) : IsChunk(result[i])

\* C7: search raises ValueError exactly when alpha or graph_ratio is outside
\* [0,1] (the ends 0 and 1 are accepted), and then no backend was queried.
RangeValidation ==
    (retriever = "retrieval" /\ pc = "done") =>
        /\ outcome = "ValueError"
               <=> \/ call.alpha < 0 \/ call.alpha > RatioDen
                   \/ call.graph_ratio < 0 \/ call.graph_ratio > RatioDen
        /\ outcome = "ValueError" => queried = <<>> /\ result = <<>>

\* a call rejected for its alpha that would otherwise have queried the
\* graph backend first
RejectedBeforeBackends ==
    /\ retriever = "retrieval" /\ pc = "done" /\ outcome = "ValueError" /\ queried = <<>>
    /\ call.alpha > RatioDen /\ call.graph_ratio = RatioDen
    /\ call.include_graph /\ call.k >= 1 /\ neo4j_driver = "open"

\* a call at the ends alpha = 1, graph_ratio = 0 that was served
EndpointsAccepted ==
    /\ ReturnedBy("retrieval") /\ call.alpha = RatioDen /\ call.graph_ratio = 0
    /\ call.k >= 1 /\ queried # <<>>

\* C8: search with k <= 0 or with an empty query text raises an
\* invalid-argument error instead of returning a list.
MalformedQueryRejected ==
    (pc = "done" /\ (call.k <= 0 \/ call.query.text = ""))
        => outcome = "ValueError"

\* C10: faiss_search returns at most k results, in non-increasing score
\* order, no document twice (and, over a corpus whose ids are all present
\* and distinct, no id twice).
UniqueIds(corpus) ==
    \A i, j \in 1..Len(corpus) :
        /\ corpus[i].id # None
        /\ i # j => corpus[i].id # corpus[j].id

FaissOutputShape ==
    ReturnedBy("retrieval") =>
        /\ Len(faiss_results) <= Max(0, budget[2])
        /\ \A i, j \in 1..Len(faiss_results) :
               i < j =>
                   /\ ScoreGE(faiss_results[i].score, faiss_results[j].score)
                   /\ faiss_results[i].chunk # faiss_results[j].chunk
                   /\ UniqueIds(faiss_metadata)
                          => faiss_results[i].metadata.id # faiss_results[j].metadata.id

\* faiss_search cut its list at k = 2 over a larger index whose nearest
\* document is not the first one
FaissTruncated ==
    /\ ReturnedBy("retrieval")
    /\ budget[2] = 2 /\ Len(faiss_results) = 2 /\ Len(faiss_metadata) > 2
    /\ faiss_results[1].chunk # 0
    /\ ScoreGT(faiss_results[1].score, faiss_results[2].score)

\* the documents with a positive lexical score for the query
PositiveLexical ==
    Cardinality({i \in 1..Len(bm25_metadata) : call.query.raw[i] > 0})

\* C9: with k = 10, alpha = 0.5, graph disabled, exactly 3 documents with a
\* positive lexical score and a vector index with at least 10 distinct
\* candidates, the response has exactly 10 entries, at most 3 of them
\* lexical, and no id twice: what the lexical backend cannot fill is filled
\* from the vector backend.
ShortfallBackfilled ==
    (/\ Returned
     /\ call.k = ShortfallK /\ 2 * call.alpha = RatioDen
     /\ (retriever = "retrieval" => ~call.include_graph)
     /\ PositiveLexical = ShortfallMatches
     /\ Len(faiss_metadata) >= call.k /\ UniqueIds(faiss_metadata))
        => /\ Len(result) = call.k
           /\ CountMethod(result, "bm25") + CountMethod(result, "BM25")
                  <= ShortfallMatches
           /\ \A i, j \in 1..Len(result) :
                  i < j => result[i].metadata.id # result[j].metadata.id

\* the same, of the aimw search alone, whose fill loop takes the slots the
\* lexical backend left from the 2 * k_faiss vector candidates
AimwShortfallBackfilled == retriever = "aimw" => ShortfallBackfilled

\* the retrieval search in the scenario returns its 5 vector results and
\* the 3 lexical matches not among them, and nothing more
RetrievalShortfallKept ==
    (ReturnedBy("retrieval") /\ call.k = ShortfallK)
        => /\ Len(result) <= Len(faiss_results) + Len(bm25_results)
           /\ Len(result) <= call.k - (budget[3] - ShortfallMatches)

(***************************************************************************)
(* Properties of the vector adapters.                                      *)
(***************************************************************************)
\* the lookups of a call of optimized_faiss_search with a filter, so far
RefetchProtocol ==
    /\ Len(fetch_windows) <= MaxAttempts
    /\ \A i \in 1..Len(fetch_windows) :
           /\ fetch_windows[i] <= Len(faiss_metadata)
           /\ i < Len(fetch_windows)
                  => /\ fetch_windows[i] < fetch_windows[i + 1]
                     /\ fetch_windows[i] < Len(faiss_metadata)
    /\ pc = "done"
           => /\ outcome = "returned"
              /\ Len(result) <= Max(0, call.k)
              /\ \A i \in 1..Len(result) :
                     _matches_filter(result[i].metadata, call.metadata_filter)
              /\ Len(result) < call.k
                     => \/ fetch_windows = <<>>
                        \/ Len(fetch_windows) = MaxAttempts
                        \/ fetch_windows[Len(fetch_windows)] = Len(faiss_metadata)

BoundedRefetchInv ==
    /\ (retriever = "aimw" /\ pc # "ready" /\ call.metadata_filter # {})
           => RefetchProtocol
    /\ (pc = "done" /\ (retriever = "retrieval" \/ call.metadata_filter = {}))
           => /\ Len(fetch_windows) <= 1
              /\ outcome = "returned"
              /\ Len(result) <= Max(0, call.k)

RefetchStoppedAtIndexSize ==
    /\ retriever = "aimw" /\ pc = "done"
    /\ Len(fetch_windows) = 2
    /\ fetch_windows[2] = Len(faiss_metadata)
    /\ Len(result) < call.k

\* the stepwise search returns what optimized_faiss_search computes
FetchAgrees ==
    (retriever = "aimw" /\ pc = "done" /\ "fetch_k" \in DOMAIN call)
        => \E r \in {optimized_faiss_search(call.query, call.metadata_filter,
                                            call.k, call.fetch_k)} :
               result = r.results /\ queried = r.ops

\* results is not reset between the attempts: a document found by two
\* lookups is in the returned list twice
RefetchRepeatsDocument ==
    /\ retriever = "aimw" /\ pc = "done"
    /\ \E i, j \in 1..Len(result) : i < j /\ result[i].doc = result[j].doc

(***************************************************************************)
(* Properties of the lexical adapter.                                      *)
(***************************************************************************)
\* the documents that pass the filter and have a positive relevance score,
\* best first, equal scores in corpus order
LexicalRanking(query, metadata_filter) ==
    LET passing == SelectSeq([i \in 1..Len(bm25_metadata) |-> i - 1],
                       LAMBDA i : /\ \A e \in metadata_filter :
                                        EntryMatches(bm25_metadata[i + 1], e)
                                  /\ query.raw[i + 1] > 0)
        order   == SortSeq(passing,
                       LAMBDA i, j : \/ query.raw[i + 1] > query.raw[j + 1]
                                     \/ /\ query.raw[i + 1] = query.raw[j + 1]
                                        /\ i < j)
    IN  order

\* bm25_search was called with a positive k and scoring did not fail
LexicalServed ==
    /\ ReturnedBy("retrieval")
    /\ budget[3] > 0
    /\ ~call.query.bm25_raises

\* C12: bm25_search(query, filter, k) returns exactly the first k of the
\* documents that pass the filter and have a positive relevance score,
\* in descending score order with equal scores in corpus order; a document
\* with a zero or negative relevance score is never returned.
LexicalTopK ==
    LexicalServed =>
        /\ [p \in 1..Len(bm25_results) |-> bm25_results[p].chunk]
               = SliceTo(LexicalRanking(call.query, call.metadata_filter), budget[3])
        /\ \A p \in 1..Len(bm25_results) :
               call.query.raw[bm25_results[p].chunk + 1] > 0

\* the same when some document has a relevance score that is not negative:
\* then max(raw_scores) >= 0 and the normalisation keeps the signs
LexicalTopKSomeNonNegative ==
    (LexicalServed /\ \E i \in 1..Len(bm25_metadata) : call.query.raw[i] >= 0)
        => LexicalTopK

\* the aimw search never returns a lexical result whose score is not positive
AimwLexicalPositive ==
    ReturnedBy("aimw") =>
        \A p \in 1..Len(result) :
            result[p].retrieval_method = "BM25"
                => call.query.raw[result[p].chunk + 1] > 0

\* every relevance score is negative and bm25_search returns documents
NegativeScoresReturned ==
    /\ LexicalServed
    /\ \A i \in 1..Len(bm25_metadata) : call.query.raw[i] < 0
    /\ bm25_results # <<>>

\* the document of an item of faiss_results (a result dict in the retrieval
\* search, a candidate in the aimw search)
VectorDoc(item) == IF "doc" \in DOMAIN item THEN item.doc ELSE item.chunk

\* the lexical index was asked for scores and raised
ScoringFailed ==
    /\ pc = "done"
    /\ call.query.bm25_raises
    /\ InSeq("bm25.get_scores", queried)

\* C13: when scoring in the lexical index raises, the lexical adapter yields
\* an empty list and search returns normally: no lexical result, every
\* result one that the graph or the vector backend returned, and a result
\* whenever the vector backend returned a chunk with an id.
LexicalFailureIsolated ==
    ScoringFailed =>
        /\ outcome = "returned"
        /\ bm25_results = <<>>
        /\ \A i \in 1..Len(result) :
               \/ /\ result[i].retrieval_method = "graph"
                  /\ InSeq(result[i], graph_results)
               \/ /\ result[i].retrieval_method \in {"faiss", "FAISS"}
                  /\ \E f \in 1..Len(faiss_results) :
                         /\ faiss_results[f].metadata = result[i].metadata
                         /\ result[i].chunk = VectorDoc(faiss_results[f])
        /\ (call.k >= 1 /\ \E f \in 1..Len(faiss_results) :
                               faiss_results[f].metadata.id # None)
               => result # <<>>

\* scoring raised and the response holds a graph and a vector result
LexicalFailedOthersReturned ==
    /\ ScoringFailed
    /\ outcome = "returned"
    /\ \E i, j \in 1..Len(result) :
          /\ result[i].retrieval_method = "graph"
          /\ result[j].retrieval_method = "faiss"

\* scoring raised in the aimw search and the response holds a vector result
AimwLexicalFailedVectorReturned ==
    /\ ScoringFailed /\ retriever = "aimw"
    /\ result # <<>>

(***************************************************************************)
(* Properties of the graph adapter.                                        *)
(***************************************************************************)
\* C14: when no graph driver is configured (or the connection failed at
\* construction, which leaves the driver None) or k_graph <= 0,
\* graph_search returns an empty list without raising and issues no
\* operation on the graph backend.
GraphAbsenceGraceful ==
    (/\ retriever = "retrieval" /\ pc = "done"
     /\ ValidArgs(call.alpha, call.graph_ratio)
     /\ (neo4j_driver = None \/ budget[1] <= 0))
        => /\ graph_results = <<>>
           /\ outcome = "returned"
           /\ ~InSeq("graph.session", queried)
           /\ ~InSeq("graph.run", queried)

\* a graph budget, entities in the graph that match, and no driver
DriverAbsentNoQuery ==
    /\ ReturnedBy("retrieval")
    /\ neo4j_driver = None
    /\ call.include_graph /\ budget[1] >= 1
    /\ call.query.hits # <<>>
    /\ graph_results = <<>> /\ result # <<>>

\* a driver, the graph included, and no graph budget
ZeroGraphBudgetNoQuery ==
    /\ ReturnedBy("retrieval")
    /\ neo4j_driver = "open"
    /\ call.include_graph /\ budget[1] <= 0 /\ call.k >= 1
    /\ call.query.hits # <<>>
    /\ graph_results = <<>> /\ queried # <<>>

(***************************************************************************)
(* Properties of the filter predicates.                                    *)
(***************************************************************************)
\* C15: for every metadata record and every filter of scalar ('equals') and
\* list ('is one of') values, _matches_filter and FilteredBM25.matches_filter
\* give the same answer.
UniformFilterPredicate ==
    pc = "done" => result.vector = result.lexical

\* the two predicates agree on the filters that hold no list, and the
\* lexical one accepts nothing under a filter that holds a list
FilterPredicatesOnScalars ==
    pc = "done" =>
        IF \E e \in call.metadata_filter : e.is_list
        THEN ~result.lexical
        ELSE result.vector = result.lexical

\* a record that the vector side accepts under a list and the lexical side
\* rejects
ListAcceptedByVectorOnly ==
    /\ pc = "done"
    /\ call.metadata_filter = ListFilterAB
    /\ call.metadata.category = "A"
    /\ result.vector /\ ~result.lexical

(***************************************************************************)
(* Properties of the lifecycle.                                            *)
(***************************************************************************)
\* C17: a search is accepted only while the retriever is Ready: one issued
\* after close() or after leaving the context manager is rejected, and
\* nothing is executed against the released backends.
LifecycleGating ==
    (retriever = "retrieval" /\ pc = "done" /\ closes # <<>>)
        => /\ outcome # "returned"
           /\ queried = <<>>

\* a search served after close() with results of the vector and lexical
\* backends
SearchServedAfterClose ==
    /\ ReturnedBy("retrieval")
    /\ closes = <<"close">> /\ neo4j_driver = "closed"
    /\ CountMethod(result, "faiss") > 0
    /\ CountMethod(result, "bm25") > 0

\* after close() the only search that fails is one that opens a session on
\* the closed driver
SearchAfterCloseOutcome ==
    (retriever = "retrieval" /\ pc = "done" /\ closes # <<>>)
        => /\ outcome \in {"returned", "GraphError"}
           /\ outcome = "GraphError"
                  => /\ neo4j_driver = "closed"
                     /\ call.include_graph /\ budget[1] > 0
           /\ graph_results = <<>>

\* C18: close() may be called any number of times, also combined with
\* __exit__: the first call releases the graph connection and no later
\* call releases it again or changes the state of the retriever.
ReleasedOnce ==
    /\ released <= 1
    /\ (closes # <<>> /\ neo4j_driver # None) => released = 1

\* what close() does: every call on a retriever with a driver calls
\* neo4j_driver.close(), the field is never reset, and no other field changes
ReleasedPerCall ==
    /\ released = (IF neo4j_driver = None THEN 0 ELSE Len(closes))
    /\ neo4j_driver = "closed" <=> released > 0

\* close() called twice on a retriever with a driver
ClosedTwice ==
    /\ closes = <<"close", "close">>
    /\ neo4j_driver = "closed"
    /\ released = 2

(***************************************************************************)
(* Properties of the scheduling of the backends.                           *)
(***************************************************************************)
\* the graph backend was asked and does not answer
GraphSilent ==
    /\ retriever = "retrieval"
    /\ pc \in {"done", "blocked"}
    /\ call.query.graph_fail = "hang"
    /\ InSeq("graph.run", queried)

\* C19: the three backend searches of one call are issued together, and a
\* backend that does not answer within its timeout contributes an empty
\* list: the search returns with the results of the others.
TimeoutContained ==
    GraphSilent =>
        /\ pc = "done" /\ outcome = "returned"
        /\ graph_results = <<>>
        /\ budget[2] > 0 => InSeq("faiss.search", queried)
        /\ budget[3] > 0 => InSeq("bm25.get_scores", queried)

\* a search waiting for the graph backend that has not asked the vector
\* and lexical backends, both with a budget
BlockedOnGraph ==
    /\ retriever = "retrieval" /\ pc = "blocked"
    /\ budget[2] > 0 /\ budget[3] > 0
    /\ queried = <<"graph.session", "graph.run">>

\* search asks the backends one after the other: graph, vector, lexical
BackendsInSequence ==
    (retriever = "retrieval" /\ pc \in {"done", "blocked"}) =>
        \A i, j \in 1..Len(queried) :
            (i < j /\ queried[j] \in {"graph.session", "graph.run"})
                => queried[i] = "graph.session"

\* a search is blocked only in sess.run of the graph backend
BlockedOnlyOnGraph ==
    pc = "blocked" => GraphSilent /\ outcome = "none" /\ result = <<>>

(***************************************************************************)
(* The frame of a search.                                                  *)
(***************************************************************************)
\* a step that serves a search
SearchStep == pc = "ready" /\ pc' # "ready"

AimwSearched ==
    /\ retriever = "aimw" /\ pc = "done" /\ outcome = "returned"
    /\ result # <<>>

(***************************************************************************)
(* Properties of the merge.                                                *)
(***************************************************************************)
\* the chunk results handed to _merge_and_dedupe, in input order
ChunkInputs == faiss_results \o bm25_results

\* C24: every chunk in the response is the first occurrence of its identity
\* in the input order vector, lexical (a chunk both backends returned
\* carries the vector backend's score and method), every identity of the
\* input is in the response, and likewise for the graph results.
FirstSeenWins ==
    ReturnedBy("retrieval") =>
        /\ \A i \in 1..Len(result) :
              IsChunk(result[i]) =>
                  \E p \in 1..Len(ChunkInputs) :
                      /\ ChunkInputs[p] = result[i]
                      /\ \A q \in 1..(p - 1) :
                            ChunkInputs[q].metadata.id # ChunkInputs[p].metadata.id
        /\ \A p \in 1..Len(ChunkInputs) :
              ChunkInputs[p].metadata.id # None =>
                  \E i \in 1..Len(result) :
                      /\ IsChunk(result[i])
                      /\ result[i].metadata.id = ChunkInputs[p].metadata.id
        /\ \A i \in 1..Len(result) :
              IsGraph(result[i]) =>
                  \E p \in 1..Len(graph_results) :
                      /\ graph_results[p] = result[i]
                      /\ \A q \in 1..(p - 1) :
                            graph_results[q].entity.id # graph_results[p].entity.id

\* both backends returned one chunk, with different scores, and the
\* response holds the vector backend's item and not the lexical one
SharedChunkKeepsVectorScore ==
    /\ ReturnedBy("retrieval")
    /\ \E f \in 1..Len(faiss_results), b \in 1..Len(bm25_results) :
          /\ faiss_results[f].metadata.id # None
          /\ faiss_results[f].metadata.id = bm25_results[b].metadata.id
          /\ ~ScoreEQ(faiss_results[f].score, bm25_results[b].score)
          /\ InSeq(faiss_results[f], result)
          /\ ~InSeq(bm25_results[b], result)

(***************************************************************************)
(* Properties of the scores.                                               *)
(***************************************************************************)
\* a score in [0,1]
UnitScore(score) == score[1] >= 0 /\ score[1] <= score[2]

\* C25: every vector and every lexical result returned by search, of either
\* retriever, carries a score in [0,1], whatever the raw lexical scores.
ScoresNormalised ==
    Returned => \A i \in 1..Len(result) :
                    IsChunk(result[i]) => UnitScore(result[i].score)

\* the vector results carry 1/(1+distance), in [0,1]
VectorScoresNormalised ==
    Returned => \A i \in 1..Len(result) :
                    result[i].retrieval_method \in {"faiss", "FAISS"}
                        => UnitScore(result[i].score)

\* bm25_search (src/retrieval) divides by the largest raw score: its scores
\* are in [0,1] unless every raw score is negative
LexicalNormalisedUnlessAllNegative ==
    (LexicalServed /\ \E d \in 1..Len(call.query.raw) : call.query.raw[d] >= 0)
        => \A i \in 1..Len(bm25_results) : UnitScore(bm25_results[i].score)

\* the aimw search returned a lexical result with its raw score, above 1
AimwRawLexicalScore ==
    /\ ReturnedBy("aimw")
    /\ \E i \in 1..Len(result) :
          /\ result[i].retrieval_method = "BM25"
          /\ result[i].score = <<call.query.raw[result[i].chunk + 1], 1>>
          /\ ~UnitScore(result[i].score)

\* bm25_search divided by a negative largest score: a result scores above 1
NegativeMaxScoreAboveOne ==
    /\ LexicalServed
    /\ \A d \in 1..Len(call.query.raw) : call.query.raw[d] < 0
    /\ \E i \in 1..Len(result) :
          /\ result[i].retrieval_method = "bm25"
          /\ ~UnitScore(result[i].score)

(***************************************************************************)
(* Properties of the list returned by the re-fetch.                        *)
(***************************************************************************)
\* optimized_faiss_search returned from a call with a filter
FilteredFetchDone ==
    /\ retriever = "aimw" /\ pc = "done"
    /\ "fetch_k" \in DOMAIN call
    /\ call.metadata_filter # {}

\* C26: the list returned by optimized_faiss_search with a non-empty filter
\* holds each document at most once, however many lookups were made.
NoRepeatAcrossAttempts ==
    FilteredFetchDone =>
        \A i, j \in 1..Len(result) : i < j => result[i].doc # result[j].doc

\* a single lookup returns no document twice
NoRepeatInOneLookup ==
    (FilteredFetchDone /\ Len(fetch_windows) <= 1) =>
        \A i, j \in 1..Len(result) : i < j => result[i].doc # result[j].doc

\* the first lookup found fewer than k matches, a second one was made, and
\* the match of the first lookup is returned twice
SecondLookupRepeatsMatch ==
    /\ FilteredFetchDone
    /\ Len(fetch_windows) >= 2
    /\ \E i, j \in 1..Len(result) : i < j /\ result[i].doc = result[j].doc

(***************************************************************************)
(* Properties of the filter in the vector adapter.                         *)
(***************************************************************************)
\* faiss_search was called with a positive k and a filter
FilteredVectorServed ==
    /\ ReturnedBy("retrieval")
    /\ budget[2] > 0
    /\ call.metadata_filter # {}

\* the fetched candidates whose metadata satisfies the filter, nearest first
MatchingCandidates ==
    SelectSeq(index_search(call.query, budget[2] * OverFetch),
              LAMBDA c : /\ c[2] >= 0
                         /\ \A e \in call.metadata_filter :
                                EntryMatches(faiss_metadata[c[2] + 1], e))

\* C27: with a non-empty filter, faiss_search returns exactly the first k
\* of the fetched candidates whose metadata satisfies the filter, in the
\* order of the index, wherever they are in the corpus.
FilterCompleteness ==
    FilteredVectorServed =>
        LET want == SliceTo(MatchingCandidates, budget[2])
        IN  /\ Len(faiss_results) = Len(want)
            /\ \A i \in 1..Len(want) : faiss_results[i].chunk = want[i][2]

\* under a filter, faiss_search returns document 0 or nothing
FilteredOnlyFirstDocument ==
    FilteredVectorServed =>
        \A i \in 1..Len(faiss_results) : faiss_results[i].chunk = 0

\* without a filter, faiss_search returns the first k candidates
UnfilteredComplete ==
    (ReturnedBy("retrieval") /\ budget[2] > 0 /\ call.metadata_filter = {}) =>
        LET want == SliceTo(MatchingCandidates, budget[2])
        IN  /\ Len(faiss_results) = Len(want)
            /\ \A i \in 1..Len(want) : faiss_results[i].chunk = want[i][2]

\* a document other than the first satisfies the filter and is the nearest
\* candidate, and faiss_search returned nothing
MatchSkippedByPosition ==
    /\ FilteredVectorServed
    /\ MatchingCandidates # <<>>
    /\ MatchingCandidates[1][2] # 0
    /\ MatchingCandidates[1][2] = index_search(call.query, 1)[1][2]
    /\ faiss_results = <<>>

(***************************************************************************)
(* Properties of the split of k in the aimw search.                        *)
(***************************************************************************)
\* C28: for every k >= 1 and alpha in [0,1] the aimw search splits k into
\* k_faiss + k_bm25 = k, both >= 0; alpha = 0 gives k_faiss = 0, alpha = 1
\* gives k_bm25 = 0, and for 0 < alpha < 1 and k >= 2 both are >= 1.
TwoBackendAllocation ==
    (retriever = "aimw" /\ pc = "done" /\ Len(budget) = 2 /\ call.k >= 1) =>
        /\ budget[1] + budget[2] = call.k
        /\ budget[1] >= 0 /\ budget[2] >= 0
        /\ call.alpha = 0 => budget[1] = 0
        /\ call.alpha = RatioDen => budget[2] = 0
        /\ (0 < call.alpha /\ call.alpha < RatioDen /\ call.k >= 2)
               => (budget[1] >= 1 /\ budget[2] >= 1)

\* int(alpha * k) is 0 and the vector side is given one slot of k >= 2
AimwVectorSlotForced ==
    /\ retriever = "aimw" /\ pc = "done" /\ Len(budget) = 2
    /\ call.k >= 2 /\ call.alpha > 0
    /\ IntTrunc(call.alpha * call.k, RatioDen) = 0
    /\ budget = <<1, call.k - 1>>

\* k = 1 cannot be shared: the one slot goes to the vector side
AimwSingleSlot ==
    /\ retriever = "aimw" /\ pc = "done"
    /\ call.k = 1 /\ 0 < call.alpha /\ call.alpha < RatioDen
    /\ budget = <<1, 0>>

(***************************************************************************)
(* Properties of results without an identity.                              *)
(***************************************************************************)
\* the backend results of the call that carry no identity
Unidentified(results, primary_key) ==
    {i \in 1..Len(results) : MergeKey(results[i], primary_key) = None}

\* C30: no chunk whose metadata has no id and no entity without an id is in
\* the list search (src/retrieval) returns, whatever its score.
IdentityRequired ==
    ReturnedBy("retrieval") =>
        \A i \in 1..Len(result) :
            /\ IsChunk(result[i]) => MetaGet(result[i].metadata, "id") # None
            /\ IsGraph(result[i]) => MetaGet(result[i].entity, "id") # None

\* the best-scoring chunk of the vector backend has no id: it is left out
\* and lower-scoring chunks are returned
UnidentifiedBestChunkDropped ==
    /\ ReturnedBy("retrieval")
    /\ \E f \in Unidentified(faiss_results, "metadata") :
          /\ result # <<>>
          /\ \A i \in 1..Len(result) :
                ScoreGT(faiss_results[f].score, result[i].score)

\* the only result of the call has no id: the response is empty
UnidentifiedOnlyResultDropped ==
    /\ ReturnedBy("retrieval")
    /\ Len(faiss_results) + Len(bm25_results) + Len(graph_results) = 1
    /\ Unidentified(faiss_results \o bm25_results, "metadata") # {}
    /\ result = <<>>

\* an entity without an id is left out as well
UnidentifiedEntityDropped ==
    /\ ReturnedBy("retrieval")
    /\ Unidentified(graph_results, "entity") # {}

(***************************************************************************)
(* Documents (src/aimw/app/services/tools.py).  A string is a sequence of  *)
(* pieces: the characters of a text, or the parts of a message.  A file is *)
(* what the file system holds under a path: nothing, something that cannot *)
(* be opened for reading, or bytes.  "xFF" is a byte that is not UTF-8,    *)
(* "CR" and "LF" are the carriage return and the line feed.                *)
(***************************************************************************)
MaxFileLen == 2     \* longest file content, in bytes

Bytes == {"a", "CR", "LF", "xFF"}

FileContents == UNION {[1..n -> Bytes] : n \in 0..MaxFileLen}

Files ==
    {[kind |-> k, bytes |-> <<>>] : k \in {"missing", "denied", "directory"}}
    \cup {[kind |-> "file", bytes |-> b] : b \in FileContents}

Extensions == {".txt", ".md", ".pdf", ".unsupported"}

PathOf(ext) == "doc" \o ext

DocumentPaths == {PathOf(ext) : ext \in Extensions}

PlaceholderMark == "[Placeholder content for "

ErrorMark == "[Error reading "

\* file.read() of a file opened in text mode with newline=None: "\r\n" and
\* a lone "\r" are read as "\n"
RECURSIVE UniversalNewlines(_)
UniversalNewlines(bytes) ==
    IF bytes = <<>> THEN <<>>
    ELSE IF Head(bytes) = "CR"
    THEN <<"LF">> \o UniversalNewlines(IF Len(bytes) >= 2 /\ bytes[2] = "LF"
                                       THEN Tail(Tail(bytes))
                                       ELSE Tail(bytes))
    ELSE <<Head(bytes)>> \o UniversalNewlines(Tail(bytes))

\* a retrieve_document that catches FileNotFoundError only
retrieve_document_uncaught(document_path, file) ==
    IF file.kind = "missing"
    THEN [outcome |-> "returned", ops |-> <<"open">>,
          text |-> <<PlaceholderMark, document_path, "]">>]
    ELSE IF file.kind \in {"denied", "directory"}
    THEN [outcome |-> "OSError", ops |-> <<"open">>, text |-> <<>>]
    ELSE IF \E i \in 1..Len(file.bytes) : file.bytes[i] = "xFF"
    THEN [outcome |-> "UnicodeDecodeError", ops |-> <<"open", "read">>,
          text |-> <<>>]
    ELSE [outcome |-> "returned", ops |-> <<"open", "read">>,
          text |-> UniversalNewlines(file.bytes)]

\* retrieve_document: [outcome, text, ops], ops being the file operations
retrieve_document(document_path, file) ==
    IF file.kind = "missing"
    THEN [outcome |-> "returned", ops |-> <<"open">>,
          text |-> <<PlaceholderMark, document_path, "]">>]
    ELSE IF file.kind \in {"denied", "directory"}
    THEN [outcome |-> "returned", ops |-> <<"open">>,
          text |-> <<ErrorMark, document_path, "]">>]
    ELSE IF \E i \in 1..Len(file.bytes) : file.bytes[i] = "xFF"
    THEN [outcome |-> "returned", ops |-> <<"open", "read">>,
          text |-> <<ErrorMark, document_path, "]">>]
    ELSE [outcome |-> "returned", ops |-> <<"open", "read">>,
          text |-> UniversalNewlines(file.bytes)]

\* no retriever is built by the document tools and the workflow
NoRetriever ==
    /\ retriever = None
    /\ faiss_metadata = <<>>
    /\ bm25_metadata = <<>>
    /\ neo4j_driver = None

NothingServed ==
    /\ budget = <<>>
    /\ graph_results = <<>>
    /\ faiss_results = <<>>
    /\ bm25_results = <<>>
    /\ queried = <<>>
    /\ outcome = "none"
    /\ result = <<>>
    /\ fetch_attempt = 0
    /\ fetch_windows = <<>>
    /\ closes = <<>>
    /\ released = 0

InitTools ==
    /\ NoRetriever
    /\ call \in [document_path : DocumentPaths, file : Files]
    /\ pc = "ready"
    /\ NothingServed
    /\ NoWorkflow

RetrieveDocument ==
    /\ pc = "ready"
    /\ \E r \in {retrieve_document(call.document_path, call.file)} :
          /\ result' = r.text
          /\ queried' = r.ops
          /\ outcome' = r.outcome
    /\ pc' = "done"
    /\ UNCHANGED <<workflow, fields, call, budget, graph_results, faiss_results,
                   bm25_results, fetch_attempt, fetch_windows, closes, released>>

NextTools == RetrieveDocument

SpecTools == InitTools /\ [][NextTools]_vars

(***************************************************************************)
(* Properties of retrieve_document.                                        *)
(***************************************************************************)
Contains(text, mark) == InSeq(mark, text)

\* the file can be opened and holds UTF-8
Readable(file) ==
    file.kind = "file" /\ \A i \in 1..Len(file.bytes) : file.bytes[i] # "xFF"

Count(s, x) == Cardinality({i \in 1..Len(s) : s[i] = x})

CrLfPairs(s) ==
    Cardinality({i \in 1..(Len(s) - 1) : s[i] = "CR" /\ s[i + 1] = "LF"})

NotNewline(x) == x \notin {"CR", "LF"}

UndecodableReported ==
    /\ pc = "done" /\ outcome = "returned"
    /\ call.file.kind = "file" /\ ~Readable(call.file)
    /\ queried = <<"open", "read">>
    /\ result = <<ErrorMark, call.document_path, "]">>

Extension(document_path) ==
    CHOOSE ext \in Extensions : PathOf(ext) = document_path

UnsupportedMark == "[Unsupported file type"

\* what convert_pdf_with_docling returns for the document
ConvertedMarkdown == <<"markdown of ", PathOf(".pdf")>>

\* C23: retrieve_document dispatches on the extension: a .pdf path is given
\* to convert_pdf_with_docling exactly once and its markdown is returned; a
\* path with an unsupported extension gives the unsupported-type message
\* and the file is not read.
ExtensionDispatch ==
    pc = "done" =>
        /\ Extension(call.document_path) = ".pdf" =>
              /\ Count(queried, "convert_pdf_with_docling") = 1
              /\ result = ConvertedMarkdown
        /\ Extension(call.document_path) = ".unsupported" =>
              /\ Contains(result, UnsupportedMark)
              /\ ~InSeq("open", queried) /\ ~InSeq("read", queried)

\* whatever the extension, the path is opened as a text file and no
\* converter is called
EveryPathOpenedAsText ==
    pc = "done" =>
        /\ queried # <<>> /\ queried[1] = "open"
        /\ ~InSeq("convert_pdf_with_docling", queried)
        /\ ~Contains(result, UnsupportedMark)

\* a .pdf path was opened and read as text
PdfReadAsText ==
    /\ pc = "done"
    /\ Extension(call.document_path) = ".pdf"
    /\ queried = <<"open", "read">>

\* a missing file with an unsupported extension gives the placeholder
UnsupportedGivesPlaceholder ==
    /\ pc = "done"
    /\ Extension(call.document_path) = ".unsupported"
    /\ call.file.kind = "missing"
    /\ Contains(result, PlaceholderMark)

(***************************************************************************)
(* The compliance workflow (src/aimw/app/services/graph.py, agent.py,      *)
(* tools.py): START -> prepare_document -> agent_planner, from there to    *)
(* agent_executor and back while checks are pending, else to reviewer and  *)
(* END.  A node returns an update that is written over the keys of the     *)
(* state it names.  pc is the node to run next, queried the nodes that     *)
(* have run, call what the last node was given.                            *)
(***************************************************************************)
NumChecks == 3      \* keys of CHECKS

CheckKey(i) == "check" \o ToString(i)

\* CHECKS: check name -> rule file, in the order of the dict
CHECKS ==
    [i \in 1..NumChecks |->
        [key |-> CheckKey(i), file |-> "rules" \o ToString(i) \o ".txt"]]

CheckKeys == [i \in 1..NumChecks |-> CHECKS[i].key]

\* CHECKS[check]
CheckFile(check) ==
    (CHOOSE i \in 1..NumChecks : CHECKS[i].key = check).file

\* the state as a node reads it
AgentState ==
    [pending_checks |-> pending_checks, current_check |-> current_check,
     check_results |-> check_results, answer |-> answer]

StaleResult == [check_name |-> "other", passed |-> TRUE, explanation |-> "stale"]

\* the states graph.invoke may be given: the initial state of
\* run_compliance_check, and states left over from an earlier run
InputStates ==
    [pending_checks : {<<>>, <<CheckKey(1)>>, <<"other">>,
                       <<CheckKey(2), CheckKey(1)>>},
     current_check : {"", CheckKey(1), "other"},
     check_results : {<<>>, <<StaleResult>>},
     answer : {<<>>, <<"stale">>}]

\* a prepare_document that starts from the results already in the state
prepare_document_keeping(state) ==
    [pending_checks |-> CheckKeys, current_check |-> "",
     check_results |-> state.check_results]

\* prepare_document: the update it returns
prepare_document(state) ==
    [pending_checks |-> CheckKeys, current_check |-> "", check_results |-> <<>>]

\* the empty update {}
NoUpdate == [key \in {} |-> key]

\* agent_planner: the update it returns
agent_planner(state) ==
    IF state.pending_checks # <<>>
    THEN [current_check |-> Head(state.pending_checks)]
    ELSE NoUpdate

\* planner_router: the node that follows agent_planner
planner_router(state) ==
    IF state.pending_checks # <<>> THEN "agent_executor" ELSE "reviewer"

\* what llm.ainvoke does: it raises, or answers with a JSON object (whose
\* "passed" is true, false, the string "false", or missing), with JSON that
\* is not an object, or with text that is not JSON (and holds one of the
\* words passed / compliant / yes, or none)
LlmAnswers ==
    {[kind |-> "raises", passed |-> None, keyword |-> FALSE],
     [kind |-> "json_list", passed |-> None, keyword |-> FALSE]}
    \cup {[kind |-> "json", passed |-> v, keyword |-> FALSE] :
             v \in {"true", "false", "'false'", None}}
    \cup {[kind |-> "text", passed |-> None, keyword |-> w] : w \in BOOLEAN}

\* bool(parsed.get("passed", False))
Truthy(v) == v \in {"true", "'false'"}

ErrorExplanation == "Error during check execution"

\* the verdict agent_executor derives from the answer of the LLM
Verdict(llm) ==
    IF llm.kind = "json"
    THEN [passed |-> Truthy(llm.passed), explanation |-> "explanation"]
    ELSE IF llm.kind = "text"
    THEN [passed |-> llm.keyword, explanation |-> "Could not parse JSON response"]
    ELSE [passed |-> FALSE, explanation |-> ErrorExplanation]

\* the rule files agent_executor reads
RuleFiles ==
    {[kind |-> "missing", bytes |-> <<>>], [kind |-> "file", bytes |-> <<"a">>]}

\* an executor that returns no update when the LLM call fails
agent_executor_retrying(state, file, llm) ==
    LET check == state.current_check
    IN  IF check = "" THEN [raised |-> "ValueError", update |-> NoUpdate]
        ELSE IF ~InSeq(check, CheckKeys)
        THEN [raised |-> "KeyError", update |-> NoUpdate]
        ELSE IF Verdict(llm).explanation = ErrorExplanation
        THEN [raised |-> "none", update |-> NoUpdate]
        ELSE [raised |-> "none",
              update |->
                 [check_results |->
                      Append(state.check_results,
                             [check_name |-> check,
                              passed |-> Verdict(llm).passed,
                              explanation |-> Verdict(llm).explanation]),
                  pending_checks |->
                      IF state.pending_checks # <<>>
                         /\ Head(state.pending_checks) = check
                      THEN Tail(state.pending_checks)
                      ELSE state.pending_checks]]

\* agent_executor: [raised, update]
agent_executor(state, file, llm) ==
    LET check == state.current_check
    IN  IF check = "" THEN [raised |-> "ValueError", update |-> NoUpdate]
        ELSE IF ~InSeq(check, CheckKeys)
        THEN [raised |-> "KeyError", update |-> NoUpdate]
        ELSE LET check_rules == retrieve_document(CheckFile(check), file).text
                 verdict     == Verdict(llm)
             IN  [raised |-> "none",
                  update |->
                     [check_results |->
                          Append(state.check_results,
                                 [check_name |-> check,
                                  passed |-> verdict.passed,
                                  explanation |-> verdict.explanation]),
                      pending_checks |->
                          IF state.pending_checks # <<>>
                             /\ Head(state.pending_checks) = check
                          THEN Tail(state.pending_checks)
                          ELSE state.pending_checks]]

\* reviewer: the summary it returns as the answer (a string, as its parts:
\* the title, the checks performed, the checks passed, the overall status)
reviewer(state) ==
    IF state.check_results = <<>> THEN [answer |-> <<"No checks were completed.">>]
    ELSE LET total_checks  == Len(state.check_results)
             passed_checks == Cardinality({i \in 1..total_checks :
                                             state.check_results[i].passed})
         IN  [answer |-> <<"DOCUMENT COMPLIANCE REPORT", total_checks,
                           passed_checks,
                           IF passed_checks = total_checks
                           THEN "COMPLIANT" ELSE "NON-COMPLIANT">>]

\* the value of a key after an update
Written(update, key, old) == IF key \in DOMAIN update THEN update[key] ELSE old

InitAgent ==
    /\ NoRetriever
    /\ call = NoCall
    /\ pc = "START"
    /\ NothingServed
    /\ \E state \in InputStates :
          /\ pending_checks = state.pending_checks
          /\ current_check = state.current_check
          /\ check_results = state.check_results
          /\ answer = state.answer
    /\ executed = <<>>

PrepareDocument ==
    /\ pc = "START"
    /\ \E u \in {prepare_document(AgentState)} :
          /\ pending_checks' = u.pending_checks
          /\ current_check' = u.current_check
          /\ check_results' = u.check_results
    /\ call' = [state |-> AgentState]
    /\ queried' = Append(queried, "prepare_document")
    /\ pc' = "agent_planner"
    /\ UNCHANGED <<fields, answer, executed, budget, graph_results,
                   faiss_results, bm25_results, outcome, result, fetch_attempt,
                   fetch_windows, closes, released>>

\* agent_planner and the conditional edge that leaves it
AgentPlanner ==
    /\ pc = "agent_planner"
    /\ \E u \in {agent_planner(AgentState)} :
          /\ current_check' = Written(u, "current_check", current_check)
          /\ pc' = planner_router([AgentState EXCEPT
                                      !.current_check = current_check'])
    /\ call' = [state |-> AgentState]
    /\ queried' = Append(queried, "agent_planner")
    /\ UNCHANGED <<fields, pending_checks, check_results, answer, executed,
                   budget, graph_results, faiss_results, bm25_results, outcome,
                   result, fetch_attempt, fetch_windows, closes, released>>

AgentExecutor ==
    /\ pc = "agent_executor"
    /\ \E file \in RuleFiles, llm \in LlmAnswers :
          \E r \in {agent_executor(AgentState, file, llm)} :
              /\ check_results' = Written(r.update, "check_results", check_results)
              /\ pending_checks' = Written(r.update, "pending_checks", pending_checks)
              /\ executed' = Append(executed, [check |-> current_check,
                                               llm |-> llm.kind])
              /\ call' = [state |-> AgentState, file |-> file, llm |-> llm]
              /\ outcome' = r.raised
              /\ pc' = IF r.raised = "none" THEN "agent_planner" ELSE "failed"
    /\ queried' = Append(queried, "agent_executor")
    /\ UNCHANGED <<fields, current_check, answer, budget, graph_results,
                   faiss_results, bm25_results, result, fetch_attempt,
                   fetch_windows, closes, released>>

Reviewer ==
    /\ pc = "reviewer"
    /\ answer' = reviewer(AgentState).answer
    /\ call' = [state |-> AgentState]
    /\ queried' = Append(queried, "reviewer")
    /\ pc' = "END"
    /\ UNCHANGED <<fields, pending_checks, current_check, check_results,
                   executed, budget, graph_results, faiss_results,
                   bm25_results, outcome, result, fetch_attempt, fetch_windows,
                   closes, released>>

NextAgent == PrepareDocument \/ AgentPlanner \/ AgentExecutor \/ Reviewer

SpecAgent == InitAgent /\ [][NextAgent]_vars

\* a run that was started goes on until it ends
SpecAgentLive == SpecAgent /\ WF_vars(NextAgent)

(***************************************************************************)
(* Properties of the compliance workflow.                                  *)
(***************************************************************************)
\* prepare_document has run and no other node has
Prepared == queried = <<"prepare_document">>

\* C21: whatever the state prepare_document is given, the update it returns
\* sets pending_checks to all keys of CHECKS, current_check to the empty
\* string and check_results to the empty list.
PrepareResets ==
    Prepared =>
        /\ pending_checks = CheckKeys
        /\ current_check = ""
        /\ check_results = <<>>

\* prepare_document was given a state with pending checks, a current check
\* and results of an earlier run, and reset all three
StaleStateReset ==
    /\ Prepared
    /\ call.state.pending_checks # <<>>
    /\ call.state.current_check # ""
    /\ call.state.check_results # <<>>
    /\ pending_checks = CheckKeys /\ current_check = "" /\ check_results = <<>>

\* prepare_document writes nothing else: the answer of an earlier run stays
PrepareKeepsAnswer ==
    Prepared => answer = call.state.answer

WorkflowInv ==
    /\ pc # "failed"
    /\ pc = "agent_planner"
           => Len(check_results) + Len(pending_checks) = NumChecks
    /\ Len(executed) <= NumChecks
    /\ Len(executed) <= Len(check_results)
    /\ \A i \in 1..Len(executed) :
          /\ executed[i].check = CheckKeys[i]
          /\ check_results[i].check_name = executed[i].check
          /\ ~InSeq(executed[i].check, pending_checks)
          /\ executed[i].llm = "raises" => ~check_results[i].passed
    /\ pc \in {"reviewer", "END"} => Len(executed) = NumChecks
    /\ pc = "END" => queried[Len(queried)] = "reviewer"

\* C29: from prepare_document on, every run ends at the reviewer after the
\* executor has run exactly once per key of CHECKS, in the order of CHECKS;
\* at every planner step len(check_results) + len(pending_checks) is the
\* number of checks; a check whose LLM call fails is recorded with
\* passed = false and removed from pending_checks.
WorkflowProgress == []WorkflowInv /\ <>(pc = "END")

\* a run ended although the LLM call of its first check failed
FailedCheckRecorded ==
    /\ pc = "END"
    /\ executed[1].llm = "raises"
    /\ check_results[1] = [check_name |-> CheckKeys[1], passed |-> FALSE,
                           explanation |-> ErrorExplanation]
    /\ Len(check_results) = NumChecks

\* the nodes of a run, in the order they ran
RunTrace ==
    <<"prepare_document">>
    \o Flatten([i \in 1..NumChecks |-> <<"agent_planner", "agent_executor">>])
    \o <<"agent_planner", "reviewer">>

\* every run is the same sequence of 2 * NumChecks + 3 nodes
RunIsRunTrace ==
    /\ Len(queried) <= Len(RunTrace)
    /\ queried = SubSeq(RunTrace, 1, Len(queried))
    /\ pc = "END" => queried = RunTrace

=============================================================================
